---------------------------- MODULE Spec2Model ----------------------------
(***************************************************************************)
(* Model of the Samarth question-answering planner (backend/planner.py)   *)
(* over the tables the ETL scripts write.                                  *)
(*                                                                         *)
(* Text.  A string is a sequence of atoms.  An atom is one character (a    *)
(* letter, a digit, a blank, a punctuation sign) or one whole word of the  *)
(* templates' vocabulary ("district", "production", a state name, ...).    *)
(* Free text (crop names, filler) is spelled in characters, so that a lazy *)
(* capture group captures character by character as the regex engine does; *)
(* the literals of the regular expressions are matched as whole atoms.     *)
(*                                                                         *)
(* Encodings.  Python's None for a year, and SQL's NULL for a production,  *)
(* are the integer -1 (None, NULL): years and productions are naturals.    *)
(***************************************************************************)
EXTENDS Integers, Sequences, FiniteSets, TLC

VARIABLES
    op,                   \* name of the operation that ran last ("" at start)
    question,             \* text given to the last answer_question call
    parsed,               \* intent (or executor arguments) of the last call
    payload,              \* value returned (or the exception raised) last
    crop_district_year,   \* cleaned_data/crop_district_year.parquet
    crop_state_year,      \* cleaned_data/crop_state_year.parquet
    rain_state_year,      \* cleaned_data/rain_state_year.parquet, rows
    rain_subdivision_year,\* cleaned_data/rain_subdivision_year.parquet, rows
    rain_india_year,      \* cleaned_data/rain_india_year.parquet, rows
    files,                \* which optional rainfall files exist
    manifest,             \* manifest/datasets.json after _load_manifest
    cropIn,               \* argument of the last _crop_variants call
    cropOut,              \* list returned by the last _crop_variants call
    catalog,              \* names of the views stored in samarth.duckdb
    _last_plan,           \* debug.py: the module's slot _last_plan
    debugOut,             \* value returned by the last get_last_sql call
    seen                  \* history: question -> the payloads it was
                          \* answered with, and whether it was asked again

vars == <<op, question, parsed, payload, crop_district_year, crop_state_year,
          rain_state_year, rain_subdivision_year, rain_india_year, files,
          manifest,
          cropIn, cropOut, catalog, _last_plan, debugOut, seen>>

None == -1
NULL == -1

-----------------------------------------------------------------------------
(* Characters and case.                                                    *)

LowerLetters == <<"a","b","c","d","e","f","g","h","i","j","k","l","m",
                  "n","o","p","q","r","s","t","u","v","w","x","y","z">>
UpperLetters == <<"A","B","C","D","E","F","G","H","I","J","K","L","M",
                  "N","O","P","Q","R","S","T","U","V","W","X","Y","Z">>
Digits == <<"0","1","2","3","4","5","6","7","8","9">>

Range(s) == {s[i] : i \in DOMAIN s}
IndexOf(s, a) == CHOOSE i \in DOMAIN s : s[i] = a

IsLower(a) == a \in Range(LowerLetters)
IsUpper(a) == a \in Range(UpperLetters)
IsLetter(a) == IsLower(a) \/ IsUpper(a)
IsDigit(a) == a \in Range(Digits)
\* str.isspace for one character: blank, tab, newline
IsSpace(a) == a \in {" ", "\t", "\n"}
DigitVal(a) == IndexOf(Digits, a) - 1

\* The whitelist of PAT_STATE, in the order of its alternation.
StateNames ==
  <<"andaman and nicobar islands", "andhra pradesh", "arunachal pradesh",
    "assam", "bihar", "chandigarh", "chhattisgarh",
    "dadra and nagar haveli and daman and diu", "delhi", "goa", "gujarat",
    "haryana", "himachal pradesh", "jammu and kashmir", "jharkhand",
    "karnataka", "kerala", "ladakh", "lakshadweep", "madhya pradesh",
    "maharashtra", "manipur", "meghalaya", "mizoram", "nagaland", "odisha",
    "puducherry", "punjab", "rajasthan", "sikkim", "tamil nadu", "telangana",
    "tripura", "uttar pradesh", "uttarakhand", "west bengal">>

\* str.title() of each name of the whitelist, index by index.
TitleStates ==
  <<"Andaman And Nicobar Islands", "Andhra Pradesh", "Arunachal Pradesh",
    "Assam", "Bihar", "Chandigarh", "Chhattisgarh",
    "Dadra And Nagar Haveli And Daman And Diu", "Delhi", "Goa", "Gujarat",
    "Haryana", "Himachal Pradesh", "Jammu And Kashmir", "Jharkhand",
    "Karnataka", "Kerala", "Ladakh", "Lakshadweep", "Madhya Pradesh",
    "Maharashtra", "Manipur", "Meghalaya", "Mizoram", "Nagaland", "Odisha",
    "Puducherry", "Punjab", "Rajasthan", "Sikkim", "Tamil Nadu", "Telangana",
    "Tripura", "Uttar Pradesh", "Uttarakhand", "West Bengal">>

\* The literal words of the templates, and their capitalised spellings.
Keywords ==
  <<"district", "in", "of", "for", "highest", "lowest", "max", "min",
    "production", "compare", "rainfall", "last", "top", "crops", "crop",
    "trend", "correlate", "correlation", "india", "national">>
TitleKeywords ==
  <<"District", "In", "Of", "For", "Highest", "Lowest", "Max", "Min",
    "Production", "Compare", "Rainfall", "Last", "Top", "Crops", "Crop",
    "Trend", "Correlate", "Correlation", "India", "National">>

LowerWords == StateNames \o Keywords
TitleWords == TitleStates \o TitleKeywords

IsWord(a) == a \in Range(LowerWords) \/ a \in Range(TitleWords)

\* str.lower() of one atom
LowerAtom(a) ==
  IF IsUpper(a) THEN LowerLetters[IndexOf(UpperLetters, a)]
  ELSE IF a \in Range(TitleWords) THEN LowerWords[IndexOf(TitleWords, a)]
  ELSE a

\* str.upper() of the first letter of one atom, the rest lowered
CapAtom(a) ==
  IF IsLetter(a) THEN UpperLetters[IndexOf(LowerLetters, LowerAtom(a))]
  ELSE IF IsWord(a) THEN TitleWords[IndexOf(LowerWords, LowerAtom(a))]
  ELSE a

\* whether the atom ends in a cased character
EndsCased(a) == IsLetter(a) \/ IsWord(a)

\* str.lower()
Lower(s) == [i \in DOMAIN s |-> LowerAtom(s[i])]

\* str.title(): a letter is upper-cased when the character before it is not
\* cased, and lower-cased when it is.
Title(s) ==
  [i \in DOMAIN s |->
     IF i > 1 /\ EndsCased(s[i-1]) THEN LowerAtom(s[i]) ELSE CapAtom(s[i])]

\* str.strip(): leading and trailing whitespace removed
RECURSIVE LStrip(_)
LStrip(s) == IF s # <<>> /\ IsSpace(Head(s)) THEN LStrip(Tail(s)) ELSE s
RECURSIVE RStrip(_)
RStrip(s) ==
  IF s # <<>> /\ IsSpace(s[Len(s)]) THEN RStrip(SubSeq(s, 1, Len(s) - 1))
  ELSE s
Strip(s) == RStrip(LStrip(s))

\* int() of a string of decimal digits
RECURSIVE ToInt(_)
ToInt(s) ==
  IF s = <<>> THEN 0
  ELSE 10 * ToInt(SubSeq(s, 1, Len(s) - 1)) + DigitVal(s[Len(s)])

\* str.upper()
Upper(s) ==
  [i \in DOMAIN s |->
     IF IsLetter(s[i]) THEN UpperLetters[IndexOf(LowerLetters, LowerAtom(s[i]))]
     ELSE s[i]]

-----------------------------------------------------------------------------
(* Crop alias resolver.                                                    *)

Rice == <<"R","i","c","e">>
Paddy == <<"P","a","d","d","y">>
Cotton == <<"C","o","t","t","o","n">>
CottonParenLint == Cotton \o <<"(","L","i","n","t",")">>
CottonLint == Cotton \o <<" ","L","i","n","t">>
Rapeseed == <<"R","a","p","e","s","e","e","d">>
Mustard == <<"M","u","s","t","a","r","d">>
RapeseedAndMustard == Rapeseed \o <<" ","A","n","d"," ">> \o Mustard
RapeseedAmpMustard == Rapeseed \o <<" ","&"," ">> \o Mustard

\* The dict CROP_ALIAS as its (key, value) items, in source order.
CROP_ALIAS ==
  << <<Rice, <<Rice, Paddy>> >>,
     <<Cotton, <<Cotton, CottonParenLint, CottonLint>> >>,
     <<RapeseedAndMustard, <<RapeseedAndMustard, RapeseedAmpMustard>> >> >>

\* CROP_ALIAS.get(key, default)
AliasGet(key, default) ==
  IF \E n \in DOMAIN CROP_ALIAS : CROP_ALIAS[n][1] = key
  THEN CROP_ALIAS[CHOOSE n \in DOMAIN CROP_ALIAS : CROP_ALIAS[n][1] = key][2]
  ELSE default

\* fault: the key is title-cased but not stripped
_crop_variants_unstripped(crop) ==
  LET key == Title(crop)
  IN  AliasGet(key, <<key>>)

\* _crop_variants(crop)
_crop_variants(crop) ==
  LET key == Title(Strip(crop))
  IN  AliasGet(key, <<key>>)

-----------------------------------------------------------------------------
(* Regular expressions over atoms.  Each template's matches are the tuples *)
(* of positions at which the engine's choice points can succeed; the match *)
(* re.search returns is the first one in the engine's backtracking order:  *)
(* leftmost start, then each lazy quantifier as short as possible and each *)
(* greedy one as long as possible, in the order they occur in the pattern. *)

Pos(q) == 1..Len(q)
\* "." matches any character but a newline
Dot(a) == a # "\n"
\* positions where the text after a run ".*?" begun at i may resume: up to
\* the first newline at or after i
Reach(q, i) ==
  LET nl == {p \in i..Len(q) : ~Dot(q[p])}
  IN  i..(IF nl = {} THEN Len(q) + 1
          ELSE CHOOSE p \in nl : \A o \in nl : p <= o)
\* the position after the longest run "\s*" begun at i
RECURSIVE SpaceEnd(_, _)
SpaceEnd(q, i) ==
  IF i \in Pos(q) /\ IsSpace(q[i]) THEN SpaceEnd(q, i + 1) ELSE i
\* positions after a run "\s+" begun at i
AfterSpaces(q, i) == (i + 1)..SpaceEnd(q, i)
\* positions after one atom of the set W at i
AfterLit(q, i, W) == IF i \in Pos(q) /\ q[i] \in W THEN {i + 1} ELSE {}
\* positions after "\s+" then one atom of W, begun at i
AfterSpacesLit(q, i, W) ==
  UNION {AfterLit(q, j, W) : j \in AfterSpaces(q, i)}
\* positions p >= i, reached by ".*?", that hold an atom of W
Find(q, i, W) == {p \in Reach(q, i) : p \in Pos(q) /\ q[p] \in W}
\* whether \d{4} matches at y
Year4(q, y) == y + 3 <= Len(q) /\ \A p \in y..(y + 3) : IsDigit(q[p])
\* end of the longest run \d+ begun at y (y - 1 when there is no digit)
RECURSIVE DigitsEnd(_, _)
DigitsEnd(q, y) ==
  IF y \in Pos(q) /\ IsDigit(q[y]) THEN DigitsEnd(q, y + 1) ELSE y - 1

LexLess(a, b) ==
  \E n \in DOMAIN a : a[n] < b[n] /\ \A m \in 1..(n - 1) : a[m] = b[m]
\* the first tuple in lexicographic order
First(S) == CHOOSE a \in S : \A b \in S : a = b \/ LexLess(a, b)

States == Range(StateNames)
Modes == {"highest", "lowest", "max", "min"}

\* fault: the state name is kept as captured
_norm_state_as_captured(s) == s

\* s.strip().title() of a state name
_norm_state(s) == Title(Strip(<<s>>))[1]

\* starts of the year in "\s+(?:in|for)?\s+(?P<year>\d{4})" begun at i
YearAfter(q, i) ==
  {y \in UNION {AfterSpaces(q, s)
                  \cup UNION {AfterSpaces(q, a)
                                : a \in AfterLit(q, s, {"in", "for"})}
                  : s \in AfterSpaces(q, i)} : Year4(q, y)}

\* position of the state in "district\s+in\s+(?P<state1>STATE)" begun at i
DistrictIn(q, i, W) ==
  {b - 1 : b \in UNION {UNION {UNION {AfterLit(q, t, States)
                                        : t \in AfterSpaces(q, s)}
                                 : s \in AfterSpacesLit(q, a, W)}
                          : a \in AfterLit(q, i, {"district"})}}

\* spans <<c0, e>> of the crop in "production\s+of\s+(?P<crop>.+?)", the
\* word "production" being at k
CropSpans(q, k) ==
  UNION {{<<c0, j - 1>> : j \in Reach(q, c0) \ {c0}}
           : c0 \in UNION {AfterSpaces(q, o)
                             : o \in AfterSpacesLit(q, k + 1, {"of"})}}

\* Template B1: district\s+in\s+STATE.*?MODE.*?production\s+of\s+CROP
\*              \s+(?:in|for)?\s+YEAR
\* matches <<i, j, k, -c0, e, st, y>>: start, mode, "production", crop span,
\* state, year
B1Matches(q) ==
  UNION {UNION {UNION {UNION {UNION {
    {<<i, j, k, 0 - ce[1], ce[2], st, y>> : y \in YearAfter(q, ce[2] + 1)}
      : ce \in CropSpans(q, k)}
      : k \in Find(q, j + 1, {"production"})}
      : j \in Find(q, st + 1, Modes)}
      : st \in DistrictIn(q, i, {"in"})}
      : i \in Pos(q)}

\* Template B2: district.*?MODE.*?production\s+of\s+CROP\s+in\s+STATE
\*              \s+(?:in|for)?\s+YEAR
\* matches <<i, j, k, -c0, e, st, y>>
B2Matches(q) ==
  UNION {UNION {UNION {UNION {UNION {
    {<<i, j, k, 0 - ce[1], ce[2], st - 1, y>> : y \in YearAfter(q, st)}
      : st \in UNION {AfterLit(q, b, States)
                        : b \in UNION {AfterSpaces(q, a)
                            : a \in AfterSpacesLit(q, ce[2] + 1, {"in"})}}}
      : ce \in CropSpans(q, k)}
      : k \in Find(q, j + 1, {"production"})}
      : j \in Find(q, i + 1, Modes)}
      : i \in {x \in Pos(q) : q[x] = "district"}}

\* whether ".*?(lowest|min).*?production" matches after the state at st2
SecondSide(q, st2) ==
  \E j \in Find(q, st2 + 1, {"lowest", "min"}) :
     Find(q, j + 1, {"production"}) # {}

\* the optional group (?:\s+(?:in|for)\s+(?P<year>\d{4}))? begun at r, as
\* <<0, y, next>> when it matches a year at y and <<1, 0, r>> when it is
\* skipped: the engine tries the group before it skips it.
OptYear(q, r) ==
  {<<0, y, y + 4>> :
     y \in {x \in UNION {AfterSpaces(q, a)
                           : a \in AfterSpacesLit(q, r, {"in", "for"})}
              : Year4(q, x)}}
  \cup {<<1, 0, r>>}

\* Template B3: district\s+in\s+STATE.*?(highest|max).*?production\s+of\s+
\*   CROP(?:\s+(?:in|for)\s+YEAR)?.*?district\s+(?:in|of)\s+STATE
\*   .*?(lowest|min).*?production
\* matches <<i, j, k, -c0, e, skipped, d, st1, y, st2>>
B3Matches(q) ==
  UNION {UNION {UNION {UNION {UNION {UNION {UNION {
    {<<i, j, k, 0 - ce[1], ce[2], oy[1], d, st, oy[2], st2>>
       : st2 \in {x \in DistrictIn(q, d, {"in", "of"}) : SecondSide(q, x)}}
      : d \in Find(q, oy[3], {"district"})}
      : oy \in OptYear(q, ce[2] + 1)}
      : ce \in CropSpans(q, k)}
      : k \in Find(q, j + 1, {"production"})}
      : j \in Find(q, st + 1, {"highest", "max"})}
      : st \in DistrictIn(q, i, {"in"})}
      : i \in Pos(q)}

\* Template A: compare.*?rainfall.*?STATE.*?STATE.*?last\s+(?P<N>\d+)
\* matches <<i, r, s1, s2, l, n>>: n the first digit of N
AMatches(q) ==
  UNION {UNION {UNION {UNION {UNION {
    {<<i, r, s1, s2, l, n>>
       : n \in {x \in AfterSpaces(q, l + 1) : x \in Pos(q) /\ IsDigit(q[x])}}
      : l \in Find(q, s2 + 1, {"last"})}
      : s2 \in Find(q, s1 + 1, States)}
      : s1 \in Find(q, r + 1, States)}
      : r \in Find(q, i + 1, {"rainfall"})}
      : i \in {x \in Pos(q) : q[x] = "compare"}}

\* top\s+(?P<M>\d+): the first digit of M, for each start
TopMatches(q) ==
  UNION {{<<i, n>> : n \in {x \in AfterSpaces(q, i + 1)
                              : x \in Pos(q) /\ IsDigit(q[x])}}
           : i \in {x \in Pos(q) : q[x] = "top"}}

\* the class [a-z \(\)\-\/] of PAT_CROP, and its first class [a-z]
CropChar(a) == IsLower(a) \/ a \in {" ", "(", ")", "-", "/"}
               \/ a \in Range(LowerWords)
CropFirst(a) == IsLower(a) \/ a \in Range(Keywords)

\* Template C: (trend|correlate|correlation).*?crop\s+
\*             (?P<crop>[a-z][a-z \(\)\-\/]+?)\s+.*?(india|national)
\* matches <<i, c, f, e>>: start, "crop", first and last atom of the crop
CMatches(q) ==
  UNION {UNION {UNION {
    {<<i, c, f, e>>
       : e \in {x \in f..Len(q) :
                  /\ \A p \in (f + 1)..x : CropChar(q[p])
                  /\ (x > f \/ q[f] \in Range(Keywords))
                  /\ \E s \in AfterSpaces(q, x + 1) :
                        Find(q, s, {"india", "national"}) # {}}}
      : f \in {y \in AfterSpaces(q, c + 1) :
                 y \in Pos(q) /\ CropFirst(q[y])}}
      : c \in Find(q, i + 1, {"crop"})}
      : i \in {x \in Pos(q) : q[x] \in {"trend", "correlate", "correlation"}}}

\* Template: top\s+(?P<M>\d+)\s+crops.*?STATE
\* matches <<i, st, n>>
SMatches(q) ==
  UNION {UNION {
    {<<tm[1], st, tm[2]>>
       : st \in Find(q, c, States)}
      : c \in AfterSpacesLit(q, DigitsEnd(q, tm[2]) + 1, {"crops"})}
      : tm \in TopMatches(q)}

-----------------------------------------------------------------------------
(* parse_question                                                          *)

\* The usage hint of the unknown intent: "Try:" and its four examples.
Hint ==
  <<"Try:",
    "- 'Which district in Maharashtra has the highest production of Sugarcane in 2014?'",
    "- 'Top 5 crops in Karnataka'",
    "- 'Analyze trend/correlation for crop Rice in India'",
    "- 'Compare rainfall in Karnataka and Tamil Nadu for last 5 years and top 3 crops' (requires subdivision rainfall)">>

\* m.group("crop").strip().title()
CropOf(q, c0, e) == Title(Strip(SubSeq(q, c0, e)))

IntentB1(q) ==
  LET m == First(B1Matches(q))
      mode == q[m[2]]
  IN  [type |-> "district_extremes_one",
       crop |-> CropOf(q, 0 - m[4], m[5]),
       state1 |-> _norm_state(q[m[6]]),
       year |-> ToInt(SubSeq(q, m[7], m[7] + 3)),
       mode |-> IF mode = "max" THEN "highest"
                ELSE IF mode = "min" THEN "lowest" ELSE mode]

\* fault: the mode word is kept as written
IntentB2_mode_as_written(q) ==
  LET m == First(B2Matches(q))
  IN  [type |-> "district_extremes_one",
       crop |-> CropOf(q, 0 - m[4], m[5]),
       state1 |-> _norm_state(q[m[6]]),
       year |-> ToInt(SubSeq(q, m[7], m[7] + 3)),
       mode |-> q[m[2]]]

IntentB2(q) ==
  LET m == First(B2Matches(q))
      mode == q[m[2]]
  IN  [type |-> "district_extremes_one",
       crop |-> CropOf(q, 0 - m[4], m[5]),
       state1 |-> _norm_state(q[m[6]]),
       year |-> ToInt(SubSeq(q, m[7], m[7] + 3)),
       mode |-> IF mode = "max" THEN "highest"
                ELSE IF mode = "min" THEN "lowest" ELSE mode]

IntentB3(q) ==
  LET m == First(B3Matches(q))
  IN  [type |-> "district_extremes_two",
       crop |-> CropOf(q, 0 - m[4], m[5]),
       state1 |-> _norm_state(q[m[8]]),
       state2 |-> _norm_state(q[m[10]]),
       year |-> IF m[6] = 0 THEN ToInt(SubSeq(q, m[9], m[9] + 3)) ELSE None]

IntentA(q) ==
  LET m == First(AMatches(q))
      mm == TopMatches(q)
  IN  [type |-> "rainfall_compare_topcrops",
       state1 |-> _norm_state(q[m[3]]),
       state2 |-> _norm_state(q[m[4]]),
       N |-> ToInt(SubSeq(q, m[6], DigitsEnd(q, m[6]))),
       M |-> IF mm # {}
             THEN ToInt(SubSeq(q, First(mm)[2], DigitsEnd(q, First(mm)[2])))
             ELSE 3]

IntentC(q) ==
  LET m == First(CMatches(q))
  IN  [type |-> "india_trend_corr", crop |-> CropOf(q, m[3], m[4]),
       years |-> 10]

IntentS(q) ==
  LET m == First(SMatches(q))
  IN  [type |-> "top_crops_state_latest", state |-> _norm_state(q[m[2]]),
       M |-> ToInt(SubSeq(q, m[3], DigitsEnd(q, m[3])))]

IntentUnknown == [type |-> "unknown", hint |-> Hint]

\* fault: the rainfall template is tried before the two-state template
parse_question_rainfall_first(q) ==
  LET ql == Strip(Lower(q))
  IN  IF B1Matches(ql) # {} THEN IntentB1(ql)
      ELSE IF B2Matches(ql) # {} THEN IntentB2(ql)
      ELSE IF AMatches(ql) # {} THEN IntentA(ql)
      ELSE IF B3Matches(ql) # {} THEN IntentB3(ql)
      ELSE IF CMatches(ql) # {} THEN IntentC(ql)
      ELSE IF SMatches(ql) # {} THEN IntentS(ql)
      ELSE IntentUnknown

\* parse_question(q)
parse_question(q) ==
  LET ql == Strip(Lower(q))
  IN  IF B1Matches(ql) # {} THEN IntentB1(ql)
      ELSE IF B2Matches(ql) # {} THEN IntentB2(ql)
      ELSE IF B3Matches(ql) # {} THEN IntentB3(ql)
      ELSE IF AMatches(ql) # {} THEN IntentA(ql)
      ELSE IF CMatches(ql) # {} THEN IntentC(ql)
      ELSE IF SMatches(ql) # {} THEN IntentS(ql)
      ELSE IntentUnknown

-----------------------------------------------------------------------------
(* Manifest and citations.  The manifest file is [exists, arr]: arr is the *)
(* JSON array, each element a record holding the keys the entry has; an    *)
(* element that is no JSON object is the record [nondict |-> TRUE].        *)

Get(e, k, default) == IF k \in DOMAIN e THEN e[k] ELSE default
IsDict(e) == "nondict" \notin DOMAIN e

\* json.loads accepts the text of the file; a file that holds no JSON has
\* the field malformed
IsJson(file) == "malformed" \notin DOMAIN file

\* {e.get("id", ""): e for e in arr if isinstance(e, dict)}: a later entry
\* replaces an earlier one of the same id
_load_manifest(file) ==
  IF file.exists
  THEN LET arr == file.arr
           dicts == {n \in DOMAIN arr : IsDict(arr[n])}
           ids == {Get(arr[n], "id", "") : n \in dicts}
       IN  [k \in ids |->
              arr[CHOOSE n \in dicts :
                    /\ Get(arr[n], "id", "") = k
                    /\ \A m \in dicts : Get(arr[m], "id", "") = k => m <= n]]
  ELSE [k \in {} |-> 0]

\* fault: catalog_url does not fall back to url
CiteEntry_no_fallback(k, e) ==
  [dataset_id |-> k,
   title |-> Get(e, "title", ""),
   catalog_url |-> Get(e, "catalog_url", ""),
   resource_id |-> Get(e, "resource_id", "")]

\* one citation record of _cite
CiteEntry(k, e) ==
  [dataset_id |-> k,
   title |-> Get(e, "title", ""),
   catalog_url |-> IF Get(e, "catalog_url", "") # ""
                   THEN e["catalog_url"] ELSE Get(e, "url", ""),
   resource_id |-> Get(e, "resource_id", "")]

\* fault: only the crop dataset is cited
_cite_crop_only(man) ==
  IF "crop_district" \in DOMAIN man
  THEN <<CiteEntry("crop_district", man["crop_district"])>> ELSE <<>>

\* _cite(manifest, keys=("crop_district", "imd_rainfall"))
_cite(man) ==
  (IF "crop_district" \in DOMAIN man
   THEN <<CiteEntry("crop_district", man["crop_district"])>> ELSE <<>>)
  \o (IF "imd_rainfall" \in DOMAIN man
      THEN <<CiteEntry("imd_rainfall", man["imd_rainfall"])>> ELSE <<>>)

-----------------------------------------------------------------------------
(* Payloads.  answer_text and titles are the f-strings' fragments in       *)
(* order.  A call that raises returns no dict: it is the record Raised.    *)

Payload(text, tables, man) ==
  [status |-> "returned", answer_text |-> text, tables |-> tables,
   citations |-> _cite(man)]
Raised(exc) ==
  [status |-> "raised", answer_text |-> <<exc>>, tables |-> <<>>,
   citations |-> <<>>]

-----------------------------------------------------------------------------
(* SQL over crop_district_year: rows [state, district, year, season, crop, *)
(* production_tonnes], production_tonnes NULL when the source cell did not *)
(* parse as a number.                                                      *)

RECURSIVE SumProduction(_)
SumProduction(S) ==
  IF S = {} THEN 0
  ELSE LET r == CHOOSE x \in S : TRUE
       IN  r.production_tonnes + SumProduction(S \ {r})

\* SUM(production_tonnes): NULLs are skipped, and the sum of none is NULL
SqlSum(S) ==
  LET nn == {r \in S : r.production_tonnes # NULL}
  IN  IF nn = {} THEN NULL ELSE SumProduction(nn)

\* fault: the earliest year is taken for the latest
MaxYear_earliest(S) ==
  IF S = {} THEN NULL
  ELSE CHOOSE y \in {r.year : r \in S} : \A r \in S : y <= r.year

\* MAX(year), NULL over no rows
MaxYear(S) ==
  IF S = {} THEN NULL
  ELSE CHOOSE y \in {r.year : r \in S} : \A r \in S : r.year <= y
MinYear(S) ==
  IF S = {} THEN NULL
  ELSE CHOOSE y \in {r.year : r \in S} : \A r \in S : y <= r.year

\* SELECT district, SUM(production_tonnes) ... GROUP BY 1
ByDistrict(S) ==
  {[district |-> d,
    production_tonnes |-> SqlSum({r \in S : r.district = d})]
     : d \in {r.district : r \in S}}

\* ORDER BY production_tonnes <order> LIMIT 1, fetchone(): <<>> is None;
\* rows that tie may come in any order.
FetchFirst(G, order) ==
  LET nn == {g \in G : g.production_tonnes # NULL}
      nulls == G \ nn
      top == {g \in nn : \A h \in nn : h.production_tonnes <= g.production_tonnes}
      bottom == {g \in nn : \A h \in nn : g.production_tonnes <= h.production_tonnes}
  IN  IF G = {} THEN {<<>>}
      ELSE IF order = "DESC NULLS LAST"
           THEN {<<g>> : g \in IF nn # {} THEN top ELSE nulls}
           ELSE {<<g>> : g \in IF nulls # {} THEN nulls ELSE bottom}

\* the table and text of a found row; float(None) raises TypeError
OneResult(row, crop, state1, year, used_year, mode, man) ==
  LET title == <<CapAtom(mode), " production district">>
      note == IF used_year = year THEN <<>>
              ELSE <<" (requested ", ToString(year),
                     " not available; using ", ToString(used_year), ")">>
  IN  IF row = <<>>
      THEN Payload(<<"No rows found for ">> \o crop \o <<" in ", state1,
                     ". Try another crop or state.">>, <<>>, man)
      ELSE IF row[1].production_tonnes = NULL THEN Raised("TypeError")
      ELSE Payload(title \o <<" for ">> \o crop \o <<" in ", state1>> \o note,
                   << [title |-> title \o <<" (", ToString(used_year), ")">>,
                       rows |-> <<row[1]>>] >>, man)

\* The payloads answer_district_extremes_one may return.
answer_district_extremes_one(con, crop, state1, year, mode, man) ==
  LET order == IF mode = "highest" THEN "DESC NULLS LAST"
               ELSE "ASC NULLS FIRST"
      variants == Range(_crop_variants(crop))
      mine == {r \in con.crop_district_year :
                 r.state = state1 /\ r.crop \in variants}
      extreme_for_year(y) ==
        FetchFirst(ByDistrict({r \in mine : r.year = y}), order)
      y_alt == MaxYear(mine)
  IN  UNION {IF row # <<>>
             THEN {OneResult(row, crop, state1, year, year, mode, man)}
             ELSE IF y_alt # NULL
             THEN {OneResult(r2, crop, state1, year, y_alt, mode, man)
                     : r2 \in extreme_for_year(y_alt)}
             ELSE {OneResult(row, crop, state1, year, year, mode, man)}
               : row \in extreme_for_year(year)}

\* The payloads answer_district_extremes_two may return.
answer_district_extremes_two(con, crop, state1, state2, year, man) ==
  LET latest(st) ==
        MaxYear({r \in con.crop_district_year : r.state = st /\ r.crop = crop})
      y1 == IF year = None THEN latest(state1) ELSE year
      y2 == IF year = None THEN latest(state2) ELSE year
      extreme(st, yr, order) ==
        IF yr = None THEN {<<>>}
        ELSE FetchFirst(ByDistrict({r \in con.crop_district_year :
                          r.state = st /\ r.crop = crop /\ r.year = yr}), order)
      Table(head, st, y, row) ==
        IF row = <<>> THEN <<>>
        ELSE << [title |-> <<head, st, " (", ToString(y), ")">>,
                 rows |-> <<row[1]>>] >>
      Result(max_row, min_row) ==
        IF max_row = <<>> /\ min_row = <<>>
        THEN Payload(<<"No rows found for ">> \o crop
                       \o <<" in ", state1, " or ", state2, ".">>, <<>>, man)
        ELSE IF \/ max_row # <<>> /\ max_row[1].production_tonnes = NULL
                \/ min_row # <<>> /\ min_row[1].production_tonnes = NULL
        THEN Raised("TypeError")
        ELSE Payload(<<"Comparison for ">> \o crop
                       \o <<": highest in ", state1, " vs lowest in ", state2, ".">>,
                     Table("Highest production in ", state1, y1, max_row)
                       \o Table("Lowest production in ", state2, y2, min_row),
                     man)
  IN  UNION {{Result(max_row, min_row)
                : min_row \in extreme(state2, y2, "ASC NULLS FIRST")}
               : max_row \in extreme(state1, y1, "DESC NULLS LAST")}

-----------------------------------------------------------------------------
(* SQL over the rainfall tables: rows [state | subdivision, year,          *)
(* annual_mm].  A result without ORDER BY, and rows that tie in an ORDER   *)
(* BY, may come in any order.                                              *)

\* the sequences that list the elements of S once each
Perms(S) ==
  {f \in [1..Cardinality(S) -> S] : \A i, j \in DOMAIN f : f[i] = f[j] => i = j}

RECURSIVE SumMm(_)
SumMm(S) ==
  IF S = {} THEN 0
  ELSE LET r == CHOOSE x \in S : TRUE IN r.annual_mm + SumMm(S \ {r})

\* value / n rounded to two decimals, in hundredths (ties to even)
Hundredths(value, n) ==
  LET twice == (200 * value) \div n
      down == twice \div 2
  IN  IF twice % 2 = 0 THEN down
      ELSE IF (200 * value) % n = 0 /\ down % 2 = 0 THEN down
      ELSE down + 1

\* AVG(annual_mm) then .round(2): NULLs are skipped, the mean of none is NULL
AvgMm(S) ==
  LET nn == {r \in S : r.annual_mm # NULL}
  IN  IF nn = {} THEN NULL ELSE Hundredths(SumMm(nn), Cardinality(nn))

Between(y, lo, hi) == lo <= y /\ y <= hi

\* the dict sub_groups of step 1b, as its items
sub_groups ==
  << <<"Karnataka", {"Coastal Karnataka", "North Interior Karnataka",
                     "South Interior Karnataka"}>>,
     <<"Andhra Pradesh", {"Coastal Andhra Pradesh", "Rayalaseema"}>>,
     <<"Gujarat", {"Gujarat Region", "Saurashtra & Kutch"}>>,
     <<"Uttar Pradesh", {"East Uttar Pradesh", "West Uttar Pradesh"}>> >>

\* sub_groups.get(miss): {} is None
SubGroup(miss) ==
  IF \E n \in DOMAIN sub_groups : sub_groups[n][1] = miss
  THEN sub_groups[CHOOSE n \in DOMAIN sub_groups : sub_groups[n][1] = miss][2]
  ELSE {}

\* fault: the subdivision table is preferred to the state table
RainSource_subdivision_first(con, flags) ==
  LET ymax_sub == MaxYear(con.rain_subdivision_year)
      use_state == ~(flags.have_subdivision /\ ymax_sub # NULL)
                   /\ flags.have_state /\ MaxYear(con.rain_state_year) # NULL
  IN  <<use_state,
        IF use_state THEN MaxYear(con.rain_state_year) ELSE ymax_sub>>

\* step 1: the rainfall source, <<use_state, ymax>>
RainSource(con, flags) ==
  LET ymax_state == MaxYear(con.rain_state_year)
      use_state == flags.have_state /\ ymax_state # NULL
  IN  <<use_state,
        IF use_state THEN ymax_state ELSE MaxYear(con.rain_subdivision_year)>>

\* step 1: rows of rain_df from the source, before step 1b
RainRows(con, use_state, state1, state2, y1, ymax) ==
  LET rows == IF use_state
              THEN {r \in con.rain_state_year :
                      r.state \in {state1, state2} /\ Between(r.year, y1, ymax)}
              ELSE {[state |-> r.subdivision, year |-> r.year,
                     annual_mm |-> r.annual_mm]
                      : r \in {x \in con.rain_subdivision_year :
                                 /\ x.subdivision \in {state1, state2}
                                 /\ Between(x.year, y1, ymax)}}
  IN  {[state |-> st, avg_annual_mm |-> AvgMm({r \in rows : r.state = st})]
         : st \in {r.state : r \in rows}}

\* step 1b: rows synthesized for the states rain_df lacks
SynthRows(con, flags, have, state1, state2, y1, ymax) ==
  IF flags.have_subdivision
  THEN {[state |-> miss,
         avg_annual_mm |->
           AvgMm({r \in con.rain_subdivision_year :
                    r.subdivision \in SubGroup(miss) /\ Between(r.year, y1, ymax)})]
          : miss \in {m \in {state1, state2} \ have : SubGroup(m) # {}}}
  ELSE {}

\* ORDER BY state: the whitelist is in alphabetical order
StateRank(st) == IndexOf(TitleStates, st)

\* top_crops_window: the possible results, each a sequence of rows
top_crops_window(con, state1, state2, y_from, y_to, M) ==
  LET rows == {r \in con.crop_state_year :
                 r.state \in {state1, state2} /\ Between(r.year, y_from, y_to)}
      groups(st) ==
        {[state |-> st, crop |-> c,
          total_tonnes |-> SqlSum({r \in rows : r.state = st /\ r.crop = c})]
           : c \in {r.crop : r \in {x \in rows : x.state = st}}}
      desc(p) == \A i, j \in DOMAIN p :
                    i < j => p[i].total_tonnes >= p[j].total_tonnes
      \* ROW_NUMBER() OVER (PARTITION BY state ORDER BY SUM DESC NULLS LAST)
      ranked(st) ==
        {[i \in DOMAIN p |->
            [state |-> st, crop |-> p[i].crop,
             total_tonnes |-> p[i].total_tonnes, rnk |-> i]]
           : p \in {x \in Perms(groups(st)) : desc(x)}}
      \* WHERE rnk <= M ORDER BY state, total_tonnes DESC NULLS LAST
      kept(st) ==
        UNION {{x \in Perms({p[i] : i \in {n \in DOMAIN p : n <= M}}) : desc(x)}
                 : p \in ranked(st)}
      sts == {r.state : r \in rows}
      lo == CHOOSE st \in sts : \A o \in sts : StateRank(st) <= StateRank(o)
  IN  IF sts = {} THEN {<<>>}
      ELSE IF Cardinality(sts) = 1 THEN kept(lo)
      ELSE UNION {{a \o b : b \in kept(CHOOSE st \in sts : st # lo)}
                    : a \in kept(lo)}

\* fault: the fallback window is not capped at N years
FallbackFrom_uncapped(y_min_crop, y_max_crop, N) == y_min_crop

\* y1c = max(y_min_crop, y_max_crop - (N - 1))
FallbackFrom(y_min_crop, y_max_crop, N) ==
  IF y_min_crop >= y_max_crop - (N - 1) THEN y_min_crop
  ELSE y_max_crop - (N - 1)

\* The payloads answer_rainfall_compare_topcrops may return.
answer_rainfall_compare_topcrops(con, state1, state2, N, M, flags, man) ==
  LET src == RainSource(con, flags)
      use_state == src[1]
      ymax == src[2]
      y1 == ymax - N + 1
      rain_df == RainRows(con, use_state, state1, state2, y1, ymax)
      synth == SynthRows(con, flags, {r.state : r \in rain_df},
                         state1, state2, y1, ymax)
      mine == {r \in con.crop_state_year : r.state \in {state1, state2}}
      y_max_crop ==
        IF mine = {} THEN NULL
        ELSE CHOOSE y \in {MaxYear({r \in mine : r.state = st}) : st \in {r.state : r \in mine}} :
               \A st \in {r.state : r \in mine} : y <= MaxYear({r \in mine : r.state = st})
      y_min_crop ==
        IF mine = {} THEN NULL
        ELSE CHOOSE y \in {MinYear({r \in mine : r.state = st}) : st \in {r.state : r \in mine}} :
               \A st \in {r.state : r \in mine} : MinYear({r \in mine : r.state = st}) <= y
      fallback == y_max_crop \notin {NULL, 0} /\ y_min_crop \notin {NULL, 0}
      y1c == FallbackFrom(y_min_crop, y_max_crop, N)
      Window(a, b) == <<ToString(a), "-", ToString(b)>>
      Build(rain, crops, note) ==
        Payload(<<"Comparison for ", state1, " vs ", state2, " over ">>
                  \o Window(y1, ymax) \o <<".">>,
                << [title |-> <<"Avg annual rainfall ">> \o Window(y1, ymax),
                    rows |-> rain] >>
                \o (IF crops = <<>> THEN <<>>
                    ELSE << [title |-> <<"Top ", ToString(M)>> \o note,
                             rows |-> crops] >>),
                man)
      Crops(rain) ==
        UNION {IF crops # <<>>
               THEN {Build(rain, crops,
                           <<" crops by total production ">> \o Window(y1, ymax))}
               ELSE IF fallback
               THEN {Build(rain, c2,
                           <<" crops by total production ">>
                             \o Window(y1c, y_max_crop))
                       : c2 \in top_crops_window(con, state1, state2,
                                                 y1c, y_max_crop, M)}
               ELSE {Build(rain, <<>>, <<" crops (latest available)">>)}
                 : crops \in top_crops_window(con, state1, state2, y1, ymax, M)}
  IN  IF ~use_state /\ ~flags.have_subdivision
      THEN {Payload(<<"Rainfall file is India-level only. Load subdivision/state-wise IMD and re-run ETL.">>,
                    <<>>, man)}
      ELSE IF ymax = NULL
      THEN {Payload(<<"No rainfall years available.">>, <<>>, man)}
      ELSE UNION {UNION {Crops(a \o b) : b \in Perms(synth)}
                    : a \in Perms(rain_df)}

-----------------------------------------------------------------------------
(* India trend and correlation.  crop_state_year rows are [state, year,    *)
(* crop, production_tonnes]; rain_india_year rows are [year, annual_mm],   *)
(* one per year.                                                           *)

\* ORDER BY year of rows with distinct years
RECURSIVE ByYear(_)
ByYear(S) ==
  IF S = {} THEN <<>>
  ELSE LET r == CHOOSE x \in S : \A o \in S : x.year <= o.year
       IN  <<r>> \o ByYear(S \ {r})

RECURSIVE SumOver(_, _, _)
\* the sum of F(r) over the rows r of S
SumOver(S, F(_), acc) ==
  IF S = {} THEN acc
  ELSE LET r == CHOOSE x \in S : TRUE IN SumOver(S \ {r}, F, acc + F(r))

\* Series.corr over the rows with both values present, printed "{r:.2f}":
\* "nan" when fewer than two rows or no variance, else hundredths
Pearson(J) ==
  LET V == {r \in J : r.production_tonnes # NULL /\ r.annual_mm # NULL}
      n == Cardinality(V)
      X(r) == r.production_tonnes
      Y(r) == r.annual_mm
      XY(r) == r.production_tonnes * r.annual_mm
      XX(r) == r.production_tonnes * r.production_tonnes
      YY(r) == r.annual_mm * r.annual_mm
      sxy == n * SumOver(V, XY, 0) - SumOver(V, X, 0) * SumOver(V, Y, 0)
      sxx == n * SumOver(V, XX, 0) - SumOver(V, X, 0) * SumOver(V, X, 0)
      syy == n * SumOver(V, YY, 0) - SumOver(V, Y, 0) * SumOver(V, Y, 0)
      k == CHOOSE a \in 0..100 :
             /\ a = 0 \/ (2 * a - 1) * (2 * a - 1) * sxx * syy <= 40000 * sxy * sxy
             /\ a = 100 \/ (2 * a + 1) * (2 * a + 1) * sxx * syy > 40000 * sxy * sxy
  IN  IF n < 2 \/ sxx = 0 \/ syy = 0 THEN <<"nan">>
      ELSE <<IF sxy < 0 /\ k > 0 THEN "-" ELSE "", ToString(k), "/100">>

\* The payload answer_india_trend_corr returns.
answer_india_trend_corr(con, crop, years, man) ==
  LET ymax == MaxYear(con.crop_state_year)
      y1 == ymax - years + 1
      Window == <<" (", ToString(y1), "-", ToString(ymax), ")">>
      mine == {r \in con.crop_state_year :
                 r.crop = crop /\ Between(r.year, y1, ymax)}
      prod == ByYear({[year |-> y,
                       production_tonnes |-> SqlSum({r \in mine : r.year = y})]
                        : y \in {r.year : r \in mine}})
      rain == ByYear({r \in con.rain_india_year : Between(r.year, y1, ymax)})
      \* pd.merge(prod, rain, on="year", how="inner")
      merged == {[year |-> prod[i].year,
                  production_tonnes |-> prod[i].production_tonnes,
                  annual_mm |-> rain[j].annual_mm]
                   : <<i, j>> \in {x \in (DOMAIN prod) \X (DOMAIN rain) :
                                     prod[x[1]].year = rain[x[2]].year}}
      enough ==
        /\ Cardinality(merged) >= 3
        /\ Cardinality({r \in merged : r.production_tonnes # NULL}) >= 3
        /\ Cardinality({r \in merged : r.annual_mm # NULL}) >= 3
      corr_txt ==
        IF enough
        THEN <<"Pearson correlation (production vs rainfall) over ",
               ToString(y1), "-", ToString(ymax), ": r = ">> \o Pearson(merged)
        ELSE <<"Correlation not computed (insufficient overlap).">>
  IN  IF ymax = NULL THEN Payload(<<"No crop years available.">>, <<>>, man)
      ELSE IF ~con.have_india THEN Raised("CatalogException")
      ELSE Payload(<<"India trend for ">> \o crop \o <<". ">> \o corr_txt,
                   (IF prod = <<>> THEN <<>>
                    ELSE << [title |-> <<"Production of ">> \o crop
                                         \o <<" in India">> \o Window,
                             rows |-> prod] >>)
                   \o (IF rain = <<>> THEN <<>>
                       ELSE << [title |-> <<"Annual rainfall (India)">> \o Window,
                                rows |-> rain] >>),
                   man)

\* The payloads answer_top_crops_state_latest may return.
answer_top_crops_state_latest(con, state, M, man) ==
  LET ymax_global == MaxYear(con.crop_state_year)
      yr_try == ymax_global
      desc(p) == \A i, j \in DOMAIN p :
                    i < j => p[i].production_tonnes >= p[j].production_tonnes
      \* ORDER BY production_tonnes DESC NULLS LAST LIMIT M
      query(yr) ==
        {[i \in {n \in DOMAIN p : n <= M} |-> p[i]]
           : p \in {x \in Perms({[crop |-> r.crop,
                                   production_tonnes |-> r.production_tonnes]
                                    : r \in {o \in con.crop_state_year :
                                               o.state = state /\ o.year = yr}})
                      : desc(x)}}
      yr_state == MaxYear({r \in con.crop_state_year : r.state = state})
      Header(tail) == <<"Top ", ToString(M), " crops in ", state>> \o tail
      Result(df, header) ==
        Payload(header, << [title |-> header, rows |-> df] >>, man)
  IN  UNION {IF df # <<>>
             THEN {Result(df, Header(<<" (year ", ToString(yr_try), ")">>))}
             ELSE IF yr_state = NULL
             THEN {Payload(<<"No data found for ", state, ".">>, <<>>, man)}
             ELSE {Result(d2, Header(<<" (latest available year for state: ",
                                       ToString(yr_state), ")">>))
                     : d2 \in query(yr_state)}
               : df \in IF yr_try # NULL THEN query(yr_try) ELSE {<<>>}}

-----------------------------------------------------------------------------
(* Orchestrator.                                                           *)

\* _register_views: the views of the connection; a view exists for a file
\* that exists (the three crop tables are required files).
Views(cdy, csy, rsy, rsub, rind, fl) ==
  [crop_district_year |-> cdy, crop_state_year |-> csy,
   rain_state_year |-> IF fl.have_state THEN rsy ELSE {},
   rain_subdivision_year |-> IF fl.have_subdivision THEN rsub ELSE {},
   rain_india_year |-> IF fl.have_india THEN rind ELSE {},
   have_india |-> fl.have_india]

\* the capability flags _register_views returns
_register_views(fl) ==
  [have_subdivision |-> fl.have_subdivision, have_state |-> fl.have_state]

\* fault: a question that is not understood is answered with the payload
\* of the call before
Dispatch_sticky(con, flags, man, intent) ==
  LET t == intent.type
  IN  IF t = "district_extremes_one"
      THEN answer_district_extremes_one(con, intent.crop, intent.state1,
                                        intent.year, intent.mode, man)
      ELSE IF t = "district_extremes_two"
      THEN answer_district_extremes_two(con, intent.crop, intent.state1,
                                        intent.state2, intent.year, man)
      ELSE IF t = "rainfall_compare_topcrops"
      THEN answer_rainfall_compare_topcrops(con, intent.state1, intent.state2,
                                            intent.N, intent.M, flags, man)
      ELSE IF t = "india_trend_corr"
      THEN {answer_india_trend_corr(con, intent.crop, intent.years, man)}
      ELSE IF t = "top_crops_state_latest"
      THEN answer_top_crops_state_latest(con, intent.state, intent.M, man)
      ELSE IF op = "answer_question" THEN {payload}
      ELSE {Payload(intent.hint, <<>>, man)}

\* The payloads answer_question may return for an intent.
Dispatch(con, flags, man, intent) ==
  LET t == intent.type
  IN  IF t = "district_extremes_one"
      THEN answer_district_extremes_one(con, intent.crop, intent.state1,
                                        intent.year, intent.mode, man)
      ELSE IF t = "district_extremes_two"
      THEN answer_district_extremes_two(con, intent.crop, intent.state1,
                                        intent.state2, intent.year, man)
      ELSE IF t = "rainfall_compare_topcrops"
      THEN answer_rainfall_compare_topcrops(con, intent.state1, intent.state2,
                                            intent.N, intent.M, flags, man)
      ELSE IF t = "india_trend_corr"
      THEN {answer_india_trend_corr(con, intent.crop, intent.years, man)}
      ELSE IF t = "top_crops_state_latest"
      THEN answer_top_crops_state_latest(con, intent.state, intent.M, man)
      ELSE {Payload(intent.hint, <<>>, man)}

-----------------------------------------------------------------------------
(* The state machine.  The files are written by the ETL and the manifest   *)
(* tool before the service starts and are read-only afterwards; each       *)
(* action is one call.                                                     *)

Con == Views(crop_district_year, crop_state_year, rain_state_year,
             rain_subdivision_year, rain_india_year, files)

\* debug.py: _last_plan = {}, and the note get_last_sql returns for it
EmptyPlan == [status |-> "empty"]
PlaceholderNote == [note |-> "No plan recorded yet."]

\* the views _register_views creates or replaces in the database file
CreatedViews(fl) ==
  {"crop_state_year", "crop_state_totals", "crop_district_year"}
  \cup (IF fl.have_india THEN {"rain_india_year"} ELSE {})
  \cup (IF fl.have_subdivision THEN {"rain_subdivision_year"} ELSE {})
  \cup (IF fl.have_state THEN {"rain_state_year"} ELSE {})

\* what no call touches besides its own result
Untouched == UNCHANGED <<catalog, _last_plan, debugOut, seen>>

\* the history after question q was answered with payload p
Record(q, p) ==
  [x \in DOMAIN seen \cup {q} |->
     IF x # q THEN seen[x]
     ELSE IF q \in DOMAIN seen
     THEN [again |-> TRUE, answers |-> seen[q].answers \cup {p}]
     ELSE [again |-> FALSE, answers |-> {p}]]

NoIntent == [type |-> ""]
NoPayload == [status |-> "", answer_text |-> <<>>, tables |-> <<>>,
              citations |-> <<>>]

ReadOnly == UNCHANGED <<crop_district_year, crop_state_year, rain_state_year,
                        rain_subdivision_year, rain_india_year, files, manifest>>

\* answer_question(q): json.loads raises on a manifest that is no JSON,
\* before the database is opened; nothing in it calls set_last_plan
answer_question(q) ==
  LET man == _load_manifest(manifest)
      flags == _register_views(files)
      intent == parse_question(q)
  IN  /\ op' = "answer_question"
      /\ question' = q
      /\ IF IsJson(manifest)
         THEN /\ parsed' = intent
              /\ payload' \in Dispatch(Con, flags, man, intent)
              /\ catalog' = catalog \cup CreatedViews(files)
         ELSE /\ parsed' = NoIntent
              /\ payload' = Raised("JSONDecodeError")
              /\ catalog' = catalog
      /\ seen' = Record(q, payload')
      /\ UNCHANGED <<cropIn, cropOut, _last_plan, debugOut>>
      /\ ReadOnly

\* debug.py set_last_plan(plan): _last_plan = plan or {}
set_last_plan(plan) ==
  /\ op' = "set_last_plan"
  /\ _last_plan' = IF plan = <<>> THEN EmptyPlan ELSE plan
  /\ UNCHANGED <<question, parsed, payload, cropIn, cropOut, catalog,
                 debugOut, seen>>
  /\ ReadOnly

\* debug.py get_last_sql(): _last_plan or {"note": "No plan recorded yet."}
get_last_sql ==
  /\ op' = "get_last_sql"
  /\ debugOut' = IF _last_plan = EmptyPlan THEN PlaceholderNote ELSE _last_plan
  /\ UNCHANGED <<question, parsed, payload, cropIn, cropOut, catalog,
                 _last_plan, seen>>
  /\ ReadOnly

\* a call of _crop_variants(crop)
CallCropVariants(crop) ==
  /\ op' = "_crop_variants"
  /\ cropIn' = crop
  /\ cropOut' = _crop_variants(crop)
  /\ UNCHANGED <<question, parsed, payload>>
  /\ Untouched
  /\ ReadOnly

\* a call of answer_district_extremes_one(con, crop, state1, year, mode, manifest)
CallDistrictOne(crop, state1, year, mode) ==
  /\ op' = "answer_district_extremes_one"
  /\ parsed' = [type |-> "district_extremes_one", crop |-> crop,
                state1 |-> state1, year |-> year, mode |-> mode]
  /\ payload' \in answer_district_extremes_one(Con, crop, state1, year, mode,
                                               _load_manifest(manifest))
  /\ UNCHANGED <<question, cropIn, cropOut>>
  /\ Untouched
  /\ ReadOnly

\* a call of answer_district_extremes_two(con, crop, state1, state2, year, manifest)
CallDistrictTwo(crop, state1, state2, year) ==
  /\ op' = "answer_district_extremes_two"
  /\ parsed' = [type |-> "district_extremes_two", crop |-> crop,
                state1 |-> state1, state2 |-> state2, year |-> year]
  /\ payload' \in answer_district_extremes_two(Con, crop, state1, state2, year,
                                               _load_manifest(manifest))
  /\ UNCHANGED <<question, cropIn, cropOut>>
  /\ Untouched
  /\ ReadOnly

\* a call of answer_rainfall_compare_topcrops(con, state1, state2, N, M, flags, manifest)
CallRainfall(state1, state2, N, M) ==
  /\ op' = "answer_rainfall_compare_topcrops"
  /\ parsed' = [type |-> "rainfall_compare_topcrops", state1 |-> state1,
                state2 |-> state2, N |-> N, M |-> M]
  /\ payload' \in answer_rainfall_compare_topcrops(Con, state1, state2, N, M,
                                                   _register_views(files),
                                                   _load_manifest(manifest))
  /\ UNCHANGED <<question, cropIn, cropOut>>
  /\ Untouched
  /\ ReadOnly

\* a call of answer_india_trend_corr(con, crop, years, manifest)
CallTrend(crop, years) ==
  /\ op' = "answer_india_trend_corr"
  /\ parsed' = [type |-> "india_trend_corr", crop |-> crop, years |-> years]
  /\ payload' = answer_india_trend_corr(Con, crop, years,
                                        _load_manifest(manifest))
  /\ UNCHANGED <<question, cropIn, cropOut>>
  /\ Untouched
  /\ ReadOnly

\* a call of answer_top_crops_state_latest(con, state, M, manifest)
CallTopCrops(state, M) ==
  /\ op' = "answer_top_crops_state_latest"
  /\ parsed' = [type |-> "top_crops_state_latest", state |-> state, M |-> M]
  /\ payload' \in answer_top_crops_state_latest(Con, state, M,
                                                 _load_manifest(manifest))
  /\ UNCHANGED <<question, cropIn, cropOut>>
  /\ Untouched
  /\ ReadOnly

-----------------------------------------------------------------------------
(* The store the service starts from: the parquet files of cleaned_data    *)
(* and the manifest.                                                       *)

Wheat == <<"W","h","e","a","t">>

District(st, d, y, c, p) ==
  [state |-> st, district |-> d, year |-> y, season |-> "Kharif", crop |-> c,
   production_tonnes |-> p]
StateCrop(st, y, c, p) ==
  [state |-> st, year |-> y, crop |-> c, production_tonnes |-> p]
StateRain(st, y, mm) == [state |-> st, year |-> y, annual_mm |-> mm]
SubRain(sd, y, mm) == [subdivision |-> sd, year |-> y, annual_mm |-> mm]
IndiaRain(y, mm) == [year |-> y, annual_mm |-> mm]

SampleDistrict ==
  {District("Kerala", "Idukki", 2014, Rice, 2),
   District("Kerala", "Palakkad", 2014, Rice, 3),
   District("Kerala", "Palakkad", 2013, Paddy, 1),
   District("Punjab", "Ludhiana", 2013, Paddy, 5),
   District("Punjab", "Moga", 2013, Rice, NULL)}
SampleStateCrop ==
  {StateCrop("Kerala", 2014, Rice, 5), StateCrop("Kerala", 2013, Paddy, 1),
   StateCrop("Kerala", 2012, Rice, 4), StateCrop("Punjab", 2013, Paddy, 5),
   StateCrop("Punjab", 2014, Wheat, 9), StateCrop("Tamil Nadu", 2014, Rice, 7)}
SampleStateRain ==
  {StateRain("Kerala", 2014, 3000), StateRain("Kerala", 2013, 2801),
   StateRain("Punjab", 2014, 600), StateRain("Tamil Nadu", 2012, 900)}
SampleSubRain ==
  {SubRain("Kerala", 2014, 3000), SubRain("Punjab", 2014, 600),
   SubRain("Coastal Karnataka", 2014, 3500)}
SampleIndiaRain ==
  {IndiaRain(2012, 1100), IndiaRain(2013, 1200), IndiaRain(2014, 1000)}

AllFiles ==
  [have_state |-> TRUE, have_subdivision |-> TRUE, have_india |-> TRUE]

\* manifest/datasets.json as make_manifest.py writes it, and smaller ones
CropEntry ==
  [id |-> "crop_district", title |-> "District-wise crop production",
   catalog_url |-> "https://data.gov.in/catalog/crop", url |-> "crop.csv",
   resource_id |-> "35be999b"]
RainEntry == [id |-> "imd_rainfall", url |-> "rain.csv"]
OtherEntry == [id |-> "other", title |-> "Other"]
ManifestFiles ==
  {[exists |-> FALSE, arr |-> <<>>],
   [exists |-> TRUE, arr |-> <<CropEntry, OtherEntry, RainEntry>>],
   [exists |-> TRUE, arr |-> <<RainEntry, OtherEntry>>]}

\* The service has answered nothing yet.  The store is read-only, so a
\* call does not depend on the calls before it: a behaviour is one call.
Idle == op = ""

NoCall ==
  /\ op = ""
  /\ question = <<>>
  /\ parsed = NoIntent
  /\ payload = NoPayload
  /\ cropIn = <<>>
  /\ cropOut = <<>>
  /\ catalog = {}
  /\ _last_plan = EmptyPlan
  /\ debugOut = EmptyPlan
  /\ seen = <<>>

SampleStore ==
  /\ crop_district_year = SampleDistrict
  /\ crop_state_year = SampleStateCrop
  /\ rain_state_year = SampleStateRain
  /\ rain_subdivision_year = SampleSubRain
  /\ rain_india_year = SampleIndiaRain
  /\ files = AllFiles

-----------------------------------------------------------------------------
(* _crop_variants over crop names written in several cases and spacings.   *)

MaxPad == 1

Spaces(n) == [i \in 1..n |-> " "]

\* every blank of s doubled
RECURSIVE Widen(_)
Widen(s) ==
  IF s = <<>> THEN <<>>
  ELSE (IF Head(s) = " " THEN <<" ", " ">> ELSE <<Head(s)>>) \o Widen(Tail(s))

\* every run of blanks of s reduced to one blank
RECURSIVE Squeeze(_)
Squeeze(s) ==
  IF Len(s) < 2 THEN s
  ELSE IF IsSpace(s[1]) /\ IsSpace(s[2]) THEN Squeeze(Tail(s))
  ELSE <<Head(s)>> \o Squeeze(Tail(s))

CropNames == {Rice, Paddy, Cotton, CottonParenLint, CottonLint,
              RapeseedAndMustard, RapeseedAmpMustard, Wheat}
CropSpellings ==
  UNION {{n, Lower(n), Upper(n), Widen(n), Lower(Widen(n))} : n \in CropNames}
CropInputs ==
  {Spaces(l) \o w \o Spaces(r) : l \in 0..MaxPad, r \in 0..MaxPad,
                                 w \in CropSpellings}

FullManifest == [exists |-> TRUE, arr |-> <<CropEntry, RainEntry>>]

InitCrop ==
  /\ NoCall
  /\ SampleStore
  /\ manifest = FullManifest

NextCrop == Idle /\ \E crop \in CropInputs : CallCropVariants(crop)

SpecCrop == InitCrop /\ [][NextCrop]_vars

\* the names CROP_ALIAS records, canonical or variant
KnownNames == UNION {Range(CROP_ALIAS[n][2]) : n \in DOMAIN CROP_ALIAS}
\* the canonical name and all the synonyms of a known name
Family(name) ==
  UNION {Range(CROP_ALIAS[n][2])
           : n \in {k \in DOMAIN CROP_ALIAS : name \in Range(CROP_ALIAS[k][2])}}
AliasKeys == {CROP_ALIAS[n][1] : n \in DOMAIN CROP_ALIAS}

\* C5: resolving a known crop name, canonical or variant, yields a list
\* that contains the canonical name and all its recorded synonyms.
C5_KnownNameYieldsFamily ==
  (op = "_crop_variants" /\ cropIn \in KnownNames)
    => Family(cropIn) \subseteq Range(cropOut)

\* C6: the result contains the normalized input; an input without entry
\* resolves to the singleton of its normalized self; two inputs that differ
\* only in letter case or in leading and trailing whitespace resolve to the
\* same list.
C6_CaseAndTrimInsensitive ==
  op = "_crop_variants" =>
    LET key == Title(Strip(cropIn))
    IN  /\ key \in Range(cropOut)
        /\ key \notin AliasKeys => cropOut = <<key>>
        /\ \A c \in CropInputs :
             Lower(Strip(c)) = Lower(Strip(cropIn))
               => _crop_variants(c) = cropOut

\* a padded, upper-case spelling of a canonical name resolved to its list
C6_Witness ==
  /\ op = "_crop_variants"
  /\ IsSpace(cropIn[1])
  /\ IsSpace(cropIn[Len(cropIn)])
  /\ Strip(cropIn) = Upper(Cotton)
  /\ cropOut = <<Cotton, CottonParenLint, CottonLint>>

\* C6 as stated: inputs that differ in letter case, in leading and trailing
\* whitespace or in repeated internal spaces resolve to the same list.
C6_SpacingInsensitive ==
  op = "_crop_variants" =>
    \A c \in CropInputs :
      Lower(Squeeze(Strip(c))) = Lower(Squeeze(Strip(cropIn)))
        => _crop_variants(c) = cropOut

-----------------------------------------------------------------------------
(* answer_question over questions made of one or more phrases, each phrase *)
(* a question of one template (or of none), joined by a blank.             *)

MaxParts == 2

Pool ==
  <<
  \* 1: "which district in kerala has the highest production of rice in 2014"
    <<"w","h","i","c","h"," ","district"," ","in"," ","kerala"," ","h","a",
      "s"," ","t","h","e"," ","highest"," ","production"," ","of"," ","r",
      "i","c","e"," ","in"," ","2","0","1","4">>,
  \* 2: "District in Punjab min production of Paddy for 2013"
    <<"District"," ","in"," ","Punjab"," ","min"," ","production"," ","of",
      " ","P","a","d","d","y"," ","for"," ","2","0","1","3">>,
  \* 3: "district with min production of paddy in punjab for 2013"
    <<"district"," ","w","i","t","h"," ","min"," ","production"," ","of",
      " ","p","a","d","d","y"," ","in"," ","punjab"," ","for"," ","2","0",
      "1","3">>,
  \* 4: "district in kerala highest production of rice and district in punjab lowest production"
    <<"district"," ","in"," ","kerala"," ","highest"," ","production"," ",
      "of"," ","r","i","c","e"," ","a","n","d"," ","district"," ","in"," ",
      "punjab"," ","lowest"," ","production">>,
  \* 5: "district in kerala max production of paddy in 2014 vs district of punjab min production"
    <<"district"," ","in"," ","kerala"," ","max"," ","production"," ","of",
      " ","p","a","d","d","y"," ","in"," ","2","0","1","4"," ","v","s"," ",
      "district"," ","of"," ","punjab"," ","min"," ","production">>,
  \* 6: "compare rainfall in kerala and tamil nadu for last 5 years"
    <<"compare"," ","rainfall"," ","in"," ","kerala"," ","a","n","d"," ",
      "tamil nadu"," ","for"," ","last"," ","5"," ","y","e","a","r","s">>,
  \* 7: "compare rainfall in punjab and kerala last 10 years top 2 crops"
    <<"compare"," ","rainfall"," ","in"," ","punjab"," ","a","n","d"," ",
      "kerala"," ","last"," ","1","0"," ","y","e","a","r","s"," ","top"," ",
      "2"," ","crops">>,
  \* 8: "trend for crop rice in india"
    <<"trend"," ","for"," ","crop"," ","r","i","c","e"," ","in"," ",
      "india">>,
  \* 9: "top 5 crops in kerala"
    <<"top"," ","5"," ","crops"," ","in"," ","kerala">>,
  \* 10: "district in kerala lowest production of rice 2014\n"
    <<"district"," ","in"," ","kerala"," ","lowest"," ","production"," ",
      "of"," ","r","i","c","e"," ","2","0","1","4","\n">>,
  \* 11: "hello"
    <<"h","e","l","l","o">>
  >>

RECURSIVE Join(_)
Join(ps) ==
  IF Len(ps) = 1 THEN Pool[ps[1]]
  ELSE Pool[ps[1]] \o <<" ">> \o Join(Tail(ps))

Questions ==
  {Join(ps) : ps \in UNION {[1..n -> DOMAIN Pool] : n \in 1..MaxParts}}

Init ==
  /\ NoCall
  /\ SampleStore
  /\ manifest \in ManifestFiles

Next == Idle /\ \E q \in Questions : answer_question(q)

Spec == Init /\ [][Next]_vars

\* the lowercased and trimmed text of the question asked
QL == Strip(Lower(question))

\* the type of the earliest template, in the fixed order, that ql satisfies
EarliestType(ql) ==
  IF B1Matches(ql) # {} THEN "district_extremes_one"
  ELSE IF B2Matches(ql) # {} THEN "district_extremes_one"
  ELSE IF B3Matches(ql) # {} THEN "district_extremes_two"
  ELSE IF AMatches(ql) # {} THEN "rainfall_compare_topcrops"
  ELSE IF CMatches(ql) # {} THEN "india_trend_corr"
  ELSE IF SMatches(ql) # {} THEN "top_crops_state_latest"
  ELSE "unknown"

\* C1: parse_question returns the intent of the earliest template, in the
\* fixed order, that the lowercased and trimmed question satisfies; a
\* question that satisfies the two-state and the rainfall template, and
\* neither one-state template, yields a district_extremes_two intent.
C1_EarliestTemplateWins ==
  op = "answer_question" =>
    /\ parsed.type = EarliestType(QL)
    /\ (/\ B1Matches(QL) = {} /\ B2Matches(QL) = {}
        /\ B3Matches(QL) # {} /\ AMatches(QL) # {})
         => parsed.type = "district_extremes_two"

\* a question of both the two-state and the rainfall template was parsed
C1_Witness ==
  /\ op = "answer_question"
  /\ B3Matches(QL) # {}
  /\ AMatches(QL) # {}
  /\ parsed.type = "district_extremes_two"

\* C1 as stated: every question that satisfies both the two-state template
\* and the rainfall template yields a district_extremes_two intent.
C1_TwoStateAndRainfallYieldsTwoState ==
  op = "answer_question" =>
    /\ parsed.type = EarliestType(QL)
    /\ (B3Matches(QL) # {} /\ AMatches(QL) # {})
         => parsed.type = "district_extremes_two"

\* C2: a question that satisfies the two-state template yields a
\* district_extremes_two intent with the two states of the match and the
\* year when one is written, None only when no year is written.
C2_TwoStateCarriesYear ==
  op = "answer_question" =>
    \A ql \in {QL} : \A ms \in {B3Matches(ql)} :
      ms # {} =>
        \A m \in {First(ms)} :
          /\ parsed.type = "district_extremes_two"
          /\ parsed.state1 = Title(<<ql[m[8]]>>)[1]
          /\ parsed.state2 = Title(<<ql[m[10]]>>)[1]
          /\ IF \A x \in ms : x[6] = 1 THEN parsed.year = None
             ELSE \E x \in ms :
                    /\ x[6] = 0
                    /\ parsed.year = ToInt(SubSeq(ql, x[9], x[9] + 3))

\* the district_extremes_one intent of the captured state, crop, year and
\* mode word
ExpectedOne(st, crop, yr, mode) ==
  [type |-> "district_extremes_one",
   crop |-> Title(Strip(crop)),
   state1 |-> Title(<<st>>)[1],
   year |-> ToInt(yr),
   mode |-> IF mode \in {"highest", "max"} THEN "highest" ELSE "lowest"]

\* C3: the intent of a question matched by the state-before-crop template
\* and the intent of a question matched by the crop-before-state template
\* are the same function of the captured state, crop, year and mode word:
\* crop title-cased, integer year, max as highest and min as lowest.  Two
\* questions that capture the same fields so get identical intents.
C3_SameCapturesSameIntent ==
  op = "answer_question" =>
    \A ql \in {QL} : \A b1 \in {B1Matches(ql)} :
      \A ms \in {IF b1 # {} THEN b1 ELSE B2Matches(ql)} :
        ms # {} =>
          \A m \in {First(ms)} :
            /\ parsed = ExpectedOne(ql[m[6]], SubSeq(ql, 0 - m[4], m[5]),
                                    SubSeq(ql, m[7], m[7] + 3), ql[m[2]])
            /\ parsed.mode \in {"highest", "lowest"}

\* a crop-before-state question with the mode word "min" got the intent of
\* the state-before-crop question with the same state, crop, year and word
C3_Witness ==
  /\ op = "answer_question"
  /\ question = Pool[3]
  /\ B1Matches(QL) = {}
  /\ B2Matches(QL) # {}
  /\ B1Matches(Strip(Lower(Pool[2]))) # {}
  /\ parsed = parse_question(Pool[2])
  /\ parsed.mode = "lowest"

\* the ids among the default ones that the manifest file has an entry for
DefaultIds ==
  LET Present(k) ==
        /\ manifest.exists
        /\ \E n \in DOMAIN manifest.arr :
              "id" \in DOMAIN manifest.arr[n] /\ manifest.arr[n].id = k
  IN  (IF Present("crop_district") THEN <<"crop_district">> ELSE <<>>)
      \o (IF Present("imd_rainfall") THEN <<"imd_rainfall">> ELSE <<>>)

\* C4: a question that satisfies none of the six templates gets the unknown
\* intent with the hint of four examples, and a payload whose answer_text
\* is that hint, whose tables are empty and whose citations are the default
\* entries the manifest has.
C4_UnknownGetsHint ==
  (/\ op = "answer_question"
   /\ B1Matches(QL) = {} /\ B2Matches(QL) = {} /\ B3Matches(QL) = {}
   /\ AMatches(QL) = {} /\ CMatches(QL) = {} /\ SMatches(QL) = {}) =>
    /\ parsed = [type |-> "unknown", hint |-> Hint]
    /\ Len(Hint) = 5
    /\ Hint[1] = "Try:"
    /\ payload.status = "returned"
    /\ payload.answer_text = Hint
    /\ payload.tables = <<>>
    /\ [i \in DOMAIN payload.citations |-> payload.citations[i].dataset_id]
         = DefaultIds
    /\ \A i \in DOMAIN payload.citations :
         payload.citations[i] \in
           {CiteEntry(e.id, e) : e \in {CropEntry, RainEntry}}

\* a question that misses the one-state template by one blank was answered
\* with the hint and both citations
C4_Witness ==
  /\ op = "answer_question"
  /\ question = Pool[10]
  /\ parsed.type = "unknown"
  /\ payload.answer_text = Hint
  /\ Len(payload.citations) = 2

-----------------------------------------------------------------------------
(* answer_district_extremes_one over small district tables of one state:   *)
(* two districts, two years, the crop under its two names, a production    *)
(* that is missing, 1 or 2.                                                *)

MaxRows == 3

\* the subsets of S of at most n elements
RECURSIVE UpTo(_, _)
UpTo(S, n) ==
  IF n = 0 THEN {{}}
  ELSE LET less == UpTo(S, n - 1)
       IN  less \cup {T \cup {x} : T \in less, x \in S}

Productions == {NULL, 1, 2}
Years == {2013, 2014}

KeralaRows ==
  {District("Kerala", d, y, c, p)
     : d \in {"Idukki", "Palakkad"}, y \in Years, c \in {Rice, Paddy},
       p \in Productions}

InitOne ==
  /\ NoCall
  /\ crop_district_year \in UpTo(KeralaRows, MaxRows)
  /\ crop_state_year = SampleStateCrop
  /\ rain_state_year = SampleStateRain
  /\ rain_subdivision_year = SampleSubRain
  /\ rain_india_year = SampleIndiaRain
  /\ files = AllFiles
  /\ manifest = FullManifest

NextOne ==
  /\ Idle
  /\ \E crop \in {Rice, Paddy}, year \in Years, mode \in {"highest", "lowest"} :
        CallDistrictOne(crop, "Kerala", year, mode)

SpecOne == InitOne /\ [][NextOne]_vars

\* the rows of the state for the crop under any of its variants
VariantRows(state, crop) ==
  {r \in crop_district_year :
     r.state = state /\ r.crop \in Range(_crop_variants(crop))}

\* whether the one-row table names a rank-1 district of the rows S with its
\* summed production: the maximum with null sums last when mode is highest,
\* the minimum with null sums first when mode is lowest
IsRankOne(row, S, mode) ==
  LET Sum(d) == SqlSum({r \in S : r.district = d})
      ds == {r.district : r \in S}
  IN  /\ row.district \in ds
      /\ row.production_tonnes = Sum(row.district)
      /\ IF mode = "highest"
         THEN \A d \in ds :
                \/ Sum(d) = NULL
                \/ Sum(row.district) # NULL /\ Sum(d) <= Sum(row.district)
         ELSE \A d \in ds :
                \/ Sum(row.district) = NULL
                \/ Sum(d) # NULL /\ Sum(row.district) <= Sum(d)

\* whether the payload is one one-row table of year y with a rank-1 district
OneRowTable(S, y, mode) ==
  /\ payload.status = "returned"
  /\ Len(payload.tables) = 1
  /\ payload.tables[1].title =
       <<CapAtom(mode), " production district", " (", ToString(y), ")">>
  /\ Len(payload.tables[1].rows) = 1
  /\ IsRankOne(payload.tables[1].rows[1], S, mode)

\* C7: when the requested year has no rows but the state and crop have rows
\* in another year, the answer is the rank-1 district of the latest year
\* with rows, in a one-row table titled with that year, and the text names
\* both years; the substitution note appears exactly when the year used is
\* not the year requested; without any rows the answer is "No rows found"
\* with no tables.
C7_FallbackToLatestYear ==
  op = "answer_district_extremes_one" =>
    \A rows \in {VariantRows(parsed.state1, parsed.crop)} :
      LET at == {r \in rows : r.year = parsed.year}
          y_alt == MaxYear(rows)
          note == <<" (requested ", ToString(parsed.year),
                    " not available; using ", ToString(y_alt), ")">>
          text == payload.answer_text
          noted == /\ Len(text) > 5
                   /\ SubSeq(text, Len(text) - 4, Len(text)) = note
      IN  /\ (at = {} /\ rows # {}) =>
                /\ OneRowTable({r \in rows : r.year = y_alt}, y_alt,
                               parsed.mode)
                /\ noted
          /\ at # {} => ~noted
          /\ rows = {} =>
                /\ payload.status = "returned"
                /\ text[1] = "No rows found for "
                /\ payload.tables = <<>>

\* C8: for a state, crop and year with rows, the single row names the
\* rank-1 district by production summed over the variants of the crop,
\* with that sum.
C8_RankOneDistrict ==
  op = "answer_district_extremes_one" =>
    \A at \in {{r \in VariantRows(parsed.state1, parsed.crop)
                  : r.year = parsed.year}} :
      at # {} => OneRowTable(at, parsed.year, parsed.mode)

-----------------------------------------------------------------------------
(* answer_district_extremes_two over small district tables of two states.  *)

TwoStateRows ==
  {District("Kerala", d, y, Rice, p)
     : d \in {"Idukki", "Palakkad"}, y \in Years, p \in Productions}
  \cup {District("Punjab", d, y, Rice, p)
          : d \in {"Ludhiana", "Moga"}, y \in Years, p \in Productions}

InitTwo ==
  /\ NoCall
  /\ crop_district_year \in UpTo(TwoStateRows, MaxRows)
  /\ crop_state_year = SampleStateCrop
  /\ rain_state_year = SampleStateRain
  /\ rain_subdivision_year = SampleSubRain
  /\ rain_india_year = SampleIndiaRain
  /\ files = AllFiles
  /\ manifest = FullManifest

NextTwo ==
  /\ Idle
  /\ \E st \in {<<"Kerala", "Punjab">>, <<"Punjab", "Kerala">>},
        year \in Years \cup {None} :
        CallDistrictTwo(Rice, st[1], st[2], year)

SpecTwo == InitTwo /\ [][NextTwo]_vars

\* C9: the two sides are computed independently: without a year each state
\* uses its own latest year with rows for the crop; a side that has rows
\* gets its table and a side that has none gets no table; the "No rows
\* found" answer without tables is returned exactly when both sides have
\* no rows.
C9_SidesIndependent ==
  op = "answer_district_extremes_two" =>
    LET Rows(st) == {r \in crop_district_year :
                       r.state = st /\ r.crop = parsed.crop}
        Yr(st) == IF parsed.year = None THEN MaxYear(Rows(st))
                  ELSE parsed.year
        Side(st) == {r \in Rows(st) : r.year = Yr(st)}
        has1 == Side(parsed.state1) # {}
        has2 == Side(parsed.state2) # {}
        Title1 == <<"Highest production in ", parsed.state1, " (",
                    ToString(Yr(parsed.state1)), ")">>
        Title2 == <<"Lowest production in ", parsed.state2, " (",
                    ToString(Yr(parsed.state2)), ")">>
        titles == [i \in DOMAIN payload.tables |-> payload.tables[i].title]
    IN  /\ payload.status = "returned"
        /\ titles = (IF has1 THEN <<Title1>> ELSE <<>>)
                      \o (IF has2 THEN <<Title2>> ELSE <<>>)
        /\ (~has1 /\ ~has2) <=> payload.answer_text[1] = "No rows found for "

-----------------------------------------------------------------------------
(* answer_rainfall_compare_topcrops over small rainfall tables: the state  *)
(* file and the subdivision file may each be missing, empty or hold a few  *)
(* rows; a subdivision is named after a state (Kerala) or not (Coastal     *)
(* Karnataka).                                                             *)

MaxRain == 2
MaxN == 2

RainYears == {2012, 2013, 2014}

StateRainRows ==
  {StateRain("Kerala", y, 10 + (y - 2012) * (y - 2011)) : y \in RainYears}
  \cup {StateRain("Karnataka", y, 20 + (y - 2012)) : y \in RainYears}
SubRainRows ==
  {SubRain("Kerala", y, 30 + 3 * (y - 2012)) : y \in RainYears}
  \cup {SubRain("Coastal Karnataka", y, 41 + 2 * (y - 2012)) : y \in RainYears}

InitRain ==
  /\ NoCall
  /\ crop_district_year = SampleDistrict
  /\ crop_state_year = SampleStateCrop
  /\ rain_india_year = SampleIndiaRain
  /\ manifest = FullManifest
  /\ files \in [have_state : BOOLEAN, have_subdivision : BOOLEAN,
                have_india : {TRUE}]
  /\ rain_state_year \in
       IF files.have_state THEN UpTo(StateRainRows, MaxRain) ELSE {{}}
  /\ rain_subdivision_year \in
       IF files.have_subdivision THEN UpTo(SubRainRows, MaxRain) ELSE {{}}

NextRain ==
  /\ Idle
  /\ \E N \in 1..MaxN : CallRainfall("Kerala", "Karnataka", N, 2)

SpecRain == InitRain /\ [][NextRain]_vars

\* C10: the state table is the rainfall source exactly when its file is
\* available and it has a year; otherwise the subdivision table is used
\* with the state names as subdivision names; when neither is usable the
\* answer is a text without tables; the window is [ymax-N+1, ymax], ymax the
\* maximum year of the source used.
C10_RainSourceAndWindow ==
  op = "answer_rainfall_compare_topcrops" =>
    LET state_ok == files.have_state /\ rain_state_year # {}
        sub_ok == files.have_subdivision /\ rain_subdivision_year # {}
        source == IF state_ok THEN rain_state_year
                  ELSE {StateRain(r.subdivision, r.year, r.annual_mm)
                          : r \in rain_subdivision_year}
        ymax == MaxYear(source)
        y1 == ymax - parsed.N + 1
        window == <<ToString(y1), "-", ToString(ymax)>>
        Mine(st) == {r \in source : r.state = st /\ Between(r.year, y1, ymax)}
        rain == payload.tables[1].rows
        RowsOf(st) == {i \in DOMAIN rain : rain[i].state = st}
    IN  /\ payload.status = "returned"
        /\ IF ~state_ok /\ ~sub_ok
           THEN payload.tables = <<>> /\ payload.answer_text # <<>>
           ELSE /\ payload.tables # <<>>
                /\ payload.tables[1].title = <<"Avg annual rainfall ">> \o window
                /\ payload.answer_text =
                     <<"Comparison for ", parsed.state1, " vs ", parsed.state2,
                       " over ">> \o window \o <<".">>
                /\ \A st \in {parsed.state1, parsed.state2} :
                     IF Mine(st) # {}
                     THEN \E i \in RowsOf(st) :
                            /\ RowsOf(st) = {i}
                            /\ rain[i].avg_annual_mm = AvgMm(Mine(st))
                     ELSE RowsOf(st) # {} =>
                            files.have_subdivision /\ SubGroup(st) # {}

\* the state file exists without a year, and the answer came from the
\* subdivision of the state's name
C10_Witness ==
  /\ op = "answer_rainfall_compare_topcrops"
  /\ files.have_state
  /\ rain_state_year = {}
  /\ rain_subdivision_year # {}
  /\ payload.tables # <<>>
  /\ \E i \in DOMAIN payload.tables[1].rows :
        payload.tables[1].rows[i].state = "Kerala"


-----------------------------------------------------------------------------
(* Step 1b of answer_rainfall_compare_topcrops over small subdivision      *)
(* tables: the three subdivisions of Karnataka and the subdivision Tamil   *)
(* Nadu, two years, a state table that is missing or lacks Karnataka.      *)

MaxSub == 5

SynthYears == {2013, 2014}

KarnatakaSubs == {"Coastal Karnataka", "North Interior Karnataka",
                  "South Interior Karnataka"}

SynthMm(sd, y) ==
  (IF sd = "Coastal Karnataka" THEN 30
   ELSE IF sd = "North Interior Karnataka" THEN 7
   ELSE IF sd = "South Interior Karnataka" THEN 10 ELSE 9) + (y - 2013)

SynthSubRows ==
  {SubRain(sd, y, SynthMm(sd, y))
     : sd \in KarnatakaSubs \cup {"Tamil Nadu"}, y \in SynthYears}

InitSynth ==
  /\ NoCall
  /\ crop_district_year = SampleDistrict
  /\ crop_state_year = SampleStateCrop
  /\ rain_india_year = SampleIndiaRain
  /\ manifest = FullManifest
  /\ files \in [have_state : BOOLEAN, have_subdivision : {TRUE},
                have_india : {TRUE}]
  /\ rain_state_year \in
       IF files.have_state
       THEN {{}, {StateRain("Tamil Nadu", 2014, 9)}} ELSE {{}}
  /\ rain_subdivision_year \in UpTo(SynthSubRows, MaxSub)

NextSynth ==
  /\ Idle
  /\ \E N \in 1..MaxN : CallRainfall("Karnataka", "Tamil Nadu", N, 2)

SpecSynth == InitSynth /\ [][NextSynth]_vars

\* the rows of the subdivision in the window of the rainfall table
WindowRows(sd, y1, ymax) ==
  {r \in rain_subdivision_year :
     r.subdivision = sd /\ Between(r.year, y1, ymax) /\ r.annual_mm # NULL}

\* the product of the numbers of window rows of the subdivisions
RECURSIVE CountProduct(_, _, _)
CountProduct(subs, y1, ymax) ==
  IF subs = {} THEN 1
  ELSE LET sd == CHOOSE x \in subs : TRUE
       IN  Cardinality(WindowRows(sd, y1, ymax))
             * CountProduct(subs \ {sd}, y1, ymax)

\* the sum of the subdivisions' window averages, times CountProduct(all)
RECURSIVE MeansNumerator(_, _, _, _)
MeansNumerator(subs, all, y1, ymax) ==
  IF subs = {} THEN 0
  ELSE LET sd == CHOOSE x \in subs : TRUE
       IN  SumMm(WindowRows(sd, y1, ymax))
             * CountProduct(all \ {sd}, y1, ymax)
           + MeansNumerator(subs \ {sd}, all, y1, ymax)

\* the mean of the subdivisions' window averages, rounded to hundredths
MeanOfSubdivisions(subs, y1, ymax) ==
  Hundredths(MeansNumerator(subs, subs, y1, ymax),
             Cardinality(subs) * CountProduct(subs, y1, ymax))

\* C11: a requested state without a row from the primary rainfall source,
\* all of whose mapped subdivisions have rainfall in the window, gets one
\* row whose value is the mean of these subdivisions' window averages,
\* whatever the number of years each subdivision has in the window; a
\* state that is a subdivision by name gets that subdivision's average.
C11_SynthesizedMeanOfSubdivisions ==
  (op = "answer_rainfall_compare_topcrops" /\ payload.tables # <<>>) =>
    \A src \in {RainSource(Con, _register_views(files))} :
    \A y1 \in {src[2] - parsed.N + 1} :
    \A rain \in {payload.tables[1].rows} :
      /\ (~src[1] /\ WindowRows("Tamil Nadu", y1, src[2]) # {}) =>
            \E i \in DOMAIN rain :
              /\ rain[i].state = "Tamil Nadu"
              /\ rain[i].avg_annual_mm =
                   AvgMm(WindowRows("Tamil Nadu", y1, src[2]))
      /\ (\A sd \in KarnatakaSubs : WindowRows(sd, y1, src[2]) # {}) =>
            \E i \in DOMAIN rain :
              /\ rain[i].state = "Karnataka"
              /\ \A j \in DOMAIN rain : rain[j].state = "Karnataka" => j = i
              /\ rain[i].avg_annual_mm =
                   MeanOfSubdivisions(KarnatakaSubs, y1, src[2])


-----------------------------------------------------------------------------
(* Step 2 of answer_rainfall_compare_topcrops over small state-year crop   *)
(* tables: two states, three crops, years inside and before the rainfall   *)
(* window, sums that tie and sums that are zero.                           *)

MaxCrops == 3
MaxM == 2

CropYears == {2011, 2012, 2014}

\* the ETL's sums: a crop whose cells are all unparsable sums to 0
CropTonnes(y, c) ==
  IF c = Cotton THEN 0 ELSE IF c = Rice THEN 2
  ELSE IF y = 2014 THEN 2 ELSE 1

CropWinRows ==
  {StateCrop(st, y, c, CropTonnes(y, c))
     : st \in {"Kerala", "Karnataka"}, y \in CropYears,
       c \in {Rice, Wheat, Cotton}}

CropWinRain ==
  {StateRain("Kerala", 2014, 10), StateRain("Kerala", 2013, 12),
   StateRain("Karnataka", 2014, 20)}

InitCropWin ==
  /\ NoCall
  /\ crop_district_year = SampleDistrict
  /\ crop_state_year \in UpTo(CropWinRows, MaxCrops)
  /\ rain_state_year = CropWinRain
  /\ rain_subdivision_year = SampleSubRain
  /\ rain_india_year = SampleIndiaRain
  /\ files = AllFiles
  /\ manifest = FullManifest

NextCropWin ==
  /\ Idle
  /\ \E N \in 1..MaxN, M \in 1..MaxM : CallRainfall("Kerala", "Karnataka", N, M)

SpecCropWin == InitCropWin /\ [][NextCropWin]_vars

\* the crop rows of the two requested states
PairRows == {r \in crop_state_year : r.state \in {parsed.state1, parsed.state2}}

\* the window the crop table must cover, <<from, to>>; <<>> when the two
\* states have no crop row at all
CropWindow ==
  LET ymax == MaxYear(rain_state_year)
      y1 == ymax - parsed.N + 1
      sts == {r.state : r \in PairRows}
      first(st) == MinYear({r \in PairRows : r.state = st})
      last(st) == MaxYear({r \in PairRows : r.state = st})
      lo == CHOOSE y \in {first(st) : st \in sts} :
              \A st \in sts : first(st) <= y
      hi == CHOOSE y \in {last(st) : st \in sts} :
              \A st \in sts : y <= last(st)
  IN  IF \E r \in PairRows : Between(r.year, y1, ymax) THEN <<y1, ymax>>
      ELSE IF PairRows = {} THEN <<>>
      ELSE <<IF lo > hi - parsed.N + 1 THEN lo ELSE hi - parsed.N + 1, hi>>

\* a is ranked no later than b: larger sum first, missing sums last
RanksBefore(a, b) == b = NULL \/ (a # NULL /\ a >= b)

\* rows is a top-M table of the crop rows U
IsTopM(rows, U, M) ==
  LET Total(st, c) == SqlSum({r \in U : r.state = st /\ r.crop = c})
      CropsOf(st) == {r.crop : r \in {x \in U : x.state = st}}
      Of(st) == {i \in DOMAIN rows : rows[i].state = st}
  IN  /\ \A i \in DOMAIN rows :
           /\ rows[i].crop \in CropsOf(rows[i].state)
           /\ rows[i].total_tonnes = Total(rows[i].state, rows[i].crop)
      /\ \A i, j \in DOMAIN rows :
           (i < j /\ rows[i].state = rows[j].state) =>
              /\ rows[i].crop # rows[j].crop
              /\ RanksBefore(rows[i].total_tonnes, rows[j].total_tonnes)
      /\ \A st \in {r.state : r \in U} :
           /\ Cardinality(Of(st)) =
                IF Cardinality(CropsOf(st)) < M THEN Cardinality(CropsOf(st))
                ELSE M
           /\ \A c \in CropsOf(st) \ {rows[i].crop : i \in Of(st)} :
                \A i \in Of(st) : RanksBefore(rows[i].total_tonnes, Total(st, c))

\* C12: the crop table covers the rainfall window when that window has
\* crop rows of the requested states, otherwise the window from the later
\* first year to the earlier last year of the states' crop rows, capped at
\* N years; it holds per state the (at most) M crops of largest summed
\* production in descending order, its title names that window, and it is
\* absent when that window has no crop row.
C12_CropWindowAndTitle ==
  (op = "answer_rainfall_compare_topcrops" /\ payload.tables # <<>>) =>
    \A w \in {CropWindow} :
    \A U \in {IF w = <<>> THEN {}
              ELSE {r \in PairRows : Between(r.year, w[1], w[2])}} :
      IF U = {} THEN Len(payload.tables) = 1
      ELSE /\ Len(payload.tables) = 2
           /\ payload.tables[2].title =
                <<"Top ", ToString(parsed.M), " crops by total production ",
                  ToString(w[1]), "-", ToString(w[2])>>
           /\ IsTopM(payload.tables[2].rows, U, parsed.M)

\* no crop row in the rainfall window, and the table covers an earlier
\* window shortened to N years and cut to M crops
C12_Witness ==
  /\ op = "answer_rainfall_compare_topcrops"
  /\ Len(payload.tables) = 2
  /\ CropWindow # <<>>
  /\ CropWindow[2] < MaxYear(rain_state_year) - parsed.N + 1
  /\ CropWindow[1] > MinYear(PairRows)
  /\ \E st \in {"Kerala", "Karnataka"} :
        /\ Cardinality({i \in DOMAIN payload.tables[2].rows :
                          payload.tables[2].rows[i].state = st}) = parsed.M
        /\ Cardinality({r.crop : r \in {x \in PairRows :
               x.state = st /\ Between(x.year, CropWindow[1], CropWindow[2])}})
             > parsed.M


-----------------------------------------------------------------------------
(* answer_india_trend_corr over small tables: the crop in two states and   *)
(* three years, the India rainfall file missing or holding some of the     *)
(* years, with a rainfall that may be missing.                             *)

MaxTrend == 4
MaxSpan == 3

TrendYears == {2012, 2013, 2014}

TrendCropRows ==
  {StateCrop("Kerala", y, Rice, p) : y \in TrendYears, p \in {1, 2}}
  \cup {StateCrop("Punjab", 2014, Rice, 1)}

\* crop_state_year has one row per state, year and crop
OnePerKey(T) ==
  \A a, b \in T :
    (a.state = b.state /\ a.year = b.year /\ a.crop = b.crop) => a = b

TrendRain(y) == IF y = 2012 THEN 11 ELSE IF y = 2013 THEN 12 ELSE 10

\* rain_india_year: per year no row, a row without annual_mm, or a row
TrendRainTables ==
  {{IndiaRain(y, IF y \in missing THEN NULL ELSE TrendRain(y)) : y \in have}
     : have \in SUBSET TrendYears, missing \in SUBSET TrendYears}

InitTrend ==
  /\ NoCall
  /\ crop_district_year = SampleDistrict
  /\ crop_state_year \in {T \in UpTo(TrendCropRows, MaxTrend) : OnePerKey(T)}
  /\ rain_state_year = SampleStateRain
  /\ rain_subdivision_year = SampleSubRain
  /\ files \in [have_state : {TRUE}, have_subdivision : {TRUE},
                have_india : BOOLEAN]
  /\ rain_india_year \in IF files.have_india THEN TrendRainTables ELSE {{}}
  /\ manifest = FullManifest

NextTrend ==
  /\ Idle
  /\ \E years \in 1..MaxSpan : CallTrend(Rice, years)

SpecTrend == InitTrend /\ [][NextTrend]_vars

\* the years of the window with a production and a rainfall
Triples ==
  LET ymax == MaxYear(crop_state_year)
      y1 == ymax - parsed.years + 1
  IN  {y \in y1..ymax :
         /\ \E r \in crop_state_year :
              r.crop = parsed.crop /\ r.year = y /\ r.production_tonnes # NULL
         /\ \E r \in rain_india_year : r.year = y /\ r.annual_mm # NULL}

\* the text ends with a correlation that is a number
ReportsNumber ==
  /\ payload.answer_text # <<>>
  /\ payload.answer_text[Len(payload.answer_text)] = "/100"

\* C13: when the crop table has years, the call returns a payload; its
\* text gives a numeric correlation exactly when three or more years of
\* the window have both a production and a rainfall, and otherwise says
\* that the correlation was not computed.
C13_CorrelationIffThreeTriples ==
  (op = "answer_india_trend_corr" /\ crop_state_year # {}) =>
    /\ payload.status = "returned"
    /\ ReportsNumber <=> Cardinality(Triples) >= 3
    /\ Cardinality(Triples) < 3 =>
         payload.answer_text[Len(payload.answer_text)] =
           "Correlation not computed (insufficient overlap)."


-----------------------------------------------------------------------------
(* answer_top_crops_state_latest over the same small state-year crop       *)
(* tables: the requested state has rows in the table's latest year, only   *)
(* in earlier years, or none.                                              *)

NextTop ==
  /\ Idle
  /\ \E M \in 0..MaxM : CallTopCrops("Kerala", M)

SpecTop == InitCropWin /\ [][NextTop]_vars

\* the years in which the state has crop rows
YearsOf(st) == {r.year : r \in {x \in crop_state_year : x.state = st}}

\* the year the answer must cover: the table's latest year when the state
\* has rows in it, else the state's own latest year; NULL without rows
TopYear(st) ==
  LET all == {r.year : r \in crop_state_year}
      latest(Y) == CHOOSE y \in Y : \A o \in Y : o <= y
  IN  IF YearsOf(st) = {} THEN NULL
      ELSE IF latest(all) \in YearsOf(st) THEN latest(all)
      ELSE latest(YearsOf(st))

\* C14: the answer covers the latest year of the table when the state has
\* rows in it, otherwise the state's own latest year, which the title and
\* the text then name as the state's latest available year; the one table
\* holds the (at most) M crops of largest production of that single year
\* in descending order; a state without rows gets 'No data found' and no
\* table.
C14_LatestYearOfState ==
  op = "answer_top_crops_state_latest" =>
    \A st \in {parsed.state} : \A y \in {TopYear(st)} :
    \A R \in {{r \in crop_state_year : r.state = st /\ r.year = y}} :
      /\ payload.status = "returned"
      /\ IF y = NULL
         THEN /\ payload.tables = <<>>
              /\ payload.answer_text = <<"No data found for ", st, ".">>
         ELSE /\ Len(payload.tables) = 1
              /\ payload.tables[1].title = payload.answer_text
              /\ \E tail \in {<<" (year ", ToString(y), ")">>,
                              <<" (latest available year for state: ",
                                ToString(y), ")">>} :
                   /\ payload.answer_text =
                        <<"Top ", ToString(parsed.M), " crops in ", st>> \o tail
                   /\ (\E r \in crop_state_year : r.year > y) =>
                        tail[1] = " (latest available year for state: "
              /\ \A rows \in {payload.tables[1].rows} :
                   /\ Len(rows) = IF Cardinality(R) < parsed.M
                                  THEN Cardinality(R) ELSE parsed.M
                   /\ \A i \in DOMAIN rows :
                        \E r \in R : /\ r.crop = rows[i].crop
                                     /\ r.production_tonnes =
                                          rows[i].production_tonnes
                   /\ \A i, j \in DOMAIN rows :
                        i < j => /\ rows[i].crop # rows[j].crop
                                 /\ RanksBefore(rows[i].production_tonnes,
                                                rows[j].production_tonnes)
                   /\ \A r \in R :
                        (\A i \in DOMAIN rows : rows[i].crop # r.crop) =>
                           \A i \in DOMAIN rows :
                              RanksBefore(rows[i].production_tonnes,
                                          r.production_tonnes)

\* the state has rows only before the table's latest year, more than M of
\* them in its own latest year, and the answer holds M rows of that year
C14_Witness ==
  /\ op = "answer_top_crops_state_latest"
  /\ TopYear("Kerala") # NULL
  /\ \E r \in crop_state_year : r.year > TopYear("Kerala")
  /\ parsed.M >= 1
  /\ Cardinality({r \in crop_state_year :
                    r.state = "Kerala" /\ r.year = TopYear("Kerala")}) > parsed.M
  /\ Len(payload.tables) = 1
  /\ Len(payload.tables[1].rows) = parsed.M


-----------------------------------------------------------------------------
(* The five executors over stores in which the requested data may be       *)
(* absent: each table holds a row of the request, a row of another state,  *)
(* both or none.                                                           *)

SparseDistrict ==
  {District("Kerala", "Idukki", 2014, Rice, 1),
   District("Punjab", "Moga", 2013, Rice, 2)}
SparseStateCrop ==
  {StateCrop("Kerala", 2014, Rice, 1), StateCrop("Kerala", 2012, Wheat, 3),
   StateCrop("Tamil Nadu", 2013, Wheat, 2)}
SparseStateRain ==
  {StateRain("Kerala", 2014, 10), StateRain("Tamil Nadu", 2014, 9)}
SparseIndiaRain == {IndiaRain(2014, 10)}

InitSparse ==
  /\ NoCall
  /\ crop_district_year \in SUBSET SparseDistrict
  /\ crop_state_year \in SUBSET SparseStateCrop
  /\ files \in [have_state : {TRUE}, have_subdivision : BOOLEAN,
                have_india : {TRUE}]
  /\ rain_state_year \in SUBSET SparseStateRain
  /\ rain_subdivision_year = {}
  /\ rain_india_year \in SUBSET SparseIndiaRain
  /\ manifest = FullManifest

NextSparse ==
  /\ Idle
  /\ \/ \E mode \in {"highest", "lowest"}, year \in {2013, 2014} :
           CallDistrictOne(Rice, "Kerala", year, mode)
     \/ \E year \in {None, 2014} : CallDistrictTwo(Rice, "Kerala", "Punjab", year)
     \/ \E N \in 1..MaxN, M \in 1..MaxM : CallRainfall("Kerala", "Punjab", N, M)
     \/ \E years \in 1..MaxSpan : CallTrend(Rice, years)
     \/ \E M \in 0..MaxM : CallTopCrops("Kerala", M)

SpecSparse == InitSparse /\ [][NextSparse]_vars

\* the texts by which an executor says that it found no data
AbsenceTexts ==
  {"No rows found for ", "No data found for ", "No crop years available.",
   "No rainfall years available.",
   "Rainfall file is India-level only. Load subdivision/state-wise IMD and re-run ETL.",
   "Correlation not computed (insufficient overlap)."}

\* C15: a payload an executor returns has no table without rows, and a
\* payload without tables has a text that says that data is absent.
C15_NoEmptyTable ==
  (op \in {"answer_district_extremes_one", "answer_district_extremes_two",
           "answer_rainfall_compare_topcrops", "answer_india_trend_corr",
           "answer_top_crops_state_latest"}
   /\ payload.status = "returned") =>
    /\ \A i \in DOMAIN payload.tables : payload.tables[i].rows # <<>>
    /\ payload.tables = <<>> =>
         \E i \in DOMAIN payload.answer_text :
            payload.answer_text[i] \in AbsenceTexts


-----------------------------------------------------------------------------
(* answer_question at its boundary: every optional rainfall file present   *)
(* or missing, the manifest missing, well-formed or no JSON at all, and a  *)
(* district table in which a rank-1 district has no production.            *)

MalformedManifest == [exists |-> TRUE, arr |-> <<>>, malformed |-> TRUE]

\* "District in Punjab min production of Rice for 2013"
NullQuestion ==
  <<"District"," ","in"," ","Punjab"," ","min"," ","production"," ","of",
    " ","R","i","c","e"," ","for"," ","2","0","1","3">>

BoundaryQuestions == {Pool[i] : i \in DOMAIN Pool} \cup {NullQuestion}

InitBoundary ==
  /\ NoCall
  /\ crop_district_year = SampleDistrict
  /\ crop_state_year = SampleStateCrop
  /\ files \in [have_state : BOOLEAN, have_subdivision : BOOLEAN,
                have_india : BOOLEAN]
  /\ rain_state_year = IF files.have_state THEN SampleStateRain ELSE {}
  /\ rain_subdivision_year =
       IF files.have_subdivision THEN SampleSubRain ELSE {}
  /\ rain_india_year = IF files.have_india THEN SampleIndiaRain ELSE {}
  /\ manifest \in ManifestFiles \cup {MalformedManifest}

NextBoundary == Idle /\ \E q \in BoundaryQuestions : answer_question(q)

SpecBoundary == InitBoundary /\ [][NextBoundary]_vars

\* C16: every call of answer_question returns a payload, with a text, a
\* list of tables and a list of citations; none raises.
C16_NeverRaises ==
  op = "answer_question" =>
    /\ payload.status = "returned"
    /\ payload.answer_text # <<>>
    /\ \A i \in DOMAIN payload.tables :
         DOMAIN payload.tables[i] = {"title", "rows"}
    /\ \A i \in DOMAIN payload.citations :
         DOMAIN payload.citations[i] =
           {"dataset_id", "title", "catalog_url", "resource_id"}

\* the text names the year
Mentions(text, y) == \E i \in DOMAIN text : text[i] = ToString(y)

\* the latest year of the rows, by the rows alone
LatestIn(S) == CHOOSE y \in {r.year : r \in S} : \A r \in S : r.year <= y

\* C17: an answer from a year or window other than the requested or
\* preferred one names that year or window in answer_text (the substituted
\* year of the one-state executor, each state's latest year of the
\* two-state executor, the fallback crop window of the rainfall executor,
\* the state's own latest year of the top-crops executor), and an executor
\* returns no tables only when the relaxed scope has no rows either.
C17_SubstitutionDisclosed ==
  payload.status = "returned" =>
    /\ op = "answer_district_extremes_one" =>
         \A S \in {{r \in crop_district_year :
                      r.state = parsed.state1 /\ r.crop \in {Rice, Paddy}}} :
           /\ (S # {} /\ parsed.year \notin {r.year : r \in S}) =>
                /\ payload.tables # <<>>
                /\ Mentions(payload.answer_text, parsed.year)
                /\ Mentions(payload.answer_text, LatestIn(S))
           /\ payload.tables = <<>> => S = {}
    /\ op = "answer_district_extremes_two" =>
         \A S1 \in {{r \in crop_district_year :
                       r.state = parsed.state1 /\ r.crop = parsed.crop}} :
         \A S2 \in {{r \in crop_district_year :
                       r.state = parsed.state2 /\ r.crop = parsed.crop}} :
           /\ (parsed.year = None /\ S1 # {}) =>
                Mentions(payload.answer_text, LatestIn(S1))
           /\ (parsed.year = None /\ S2 # {}) =>
                Mentions(payload.answer_text, LatestIn(S2))
           /\ payload.tables = <<>> => (S1 = {} /\ S2 = {})
    /\ op = "answer_rainfall_compare_topcrops" =>
         \A w \in {CropWindow} :
           (/\ Len(payload.tables) = 2
            /\ w # <<>>
            /\ w[2] # MaxYear(rain_state_year)) =>
              /\ Mentions(payload.answer_text, w[1])
              /\ Mentions(payload.answer_text, w[2])
    /\ op = "answer_top_crops_state_latest" =>
         \A y \in {TopYear(parsed.state)} :
           /\ (y # NULL /\ \E r \in crop_state_year : r.year > y) =>
                /\ payload.tables # <<>>
                /\ Mentions(payload.answer_text, y)
           /\ payload.tables = <<>> => y = NULL


-----------------------------------------------------------------------------
(* _cite over manifests written by hand: entries of the two cited ids and  *)
(* of others, with all, some or none of the provenance fields, entries     *)
(* without id, elements that are no JSON object, ids that repeat.          *)

MaxEntries == 2

EntryPool ==
  {CropEntry, RainEntry, OtherEntry,
   [id |-> "crop_district"],
   [id |-> "imd_rainfall", catalog_url |-> "", url |-> "rain.csv",
    title |-> "IMD rainfall"],
   [id |-> "imd_rainfall", title |-> "IMD rainfall",
    catalog_url |-> "https://data.gov.in/catalog/rain",
    resource_id |-> "8e0bd482"],
   [title |-> "No id"],
   [nondict |-> TRUE]}

CiteManifests ==
  {[exists |-> FALSE, arr |-> <<>>]}
  \cup {[exists |-> TRUE, arr |-> a]
          : a \in UNION {[1..n -> EntryPool] : n \in 0..MaxEntries}}

InitCite ==
  /\ NoCall
  /\ SampleStore
  /\ manifest \in CiteManifests

NextCite == Idle /\ \E i \in {9, 11} : answer_question(Pool[i])

SpecCite == InitCite /\ [][NextCite]_vars

\* the manifest's entry for the id: the last JSON object of the array that
\* has it
EntryOf(k) ==
  LET at == {n \in DOMAIN manifest.arr :
               /\ "nondict" \notin DOMAIN manifest.arr[n]
               /\ "id" \in DOMAIN manifest.arr[n]
               /\ manifest.arr[n].id = k}
  IN  manifest.arr[CHOOSE n \in at : \A o \in at : o <= n]

\* the entry's field, the empty string when the entry lacks it
FieldOf(e, f) == IF f \in DOMAIN e THEN e[f] ELSE ""

\* C18: the citations of a payload are one record for each of crop_district
\* and imd_rainfall that the manifest has, in this order, and no other;
\* each has the fields dataset_id, title, catalog_url and resource_id
\* taken from the entry, catalog_url being the entry's url when the entry
\* has no catalog_url, and a field the entry lacks is the empty string;
\* the call returns for every manifest.
C18_CitationRecords ==
  op = "answer_question" =>
    /\ payload.status = "returned"
    /\ \A cites \in {payload.citations} :
         /\ Len(cites) <= 2
         /\ [i \in DOMAIN cites |-> cites[i].dataset_id] = DefaultIds
         /\ \A i \in DOMAIN cites : \A e \in {EntryOf(cites[i].dataset_id)} :
              /\ DOMAIN cites[i] =
                   {"dataset_id", "title", "catalog_url", "resource_id"}
              /\ cites[i].title = FieldOf(e, "title")
              /\ cites[i].resource_id = FieldOf(e, "resource_id")
              /\ cites[i].catalog_url =
                   IF FieldOf(e, "catalog_url") # "" THEN e.catalog_url
                   ELSE FieldOf(e, "url")

\* a manifest with a foreign entry and a rainfall entry that has a url but
\* no catalog_url, title or resource_id: one record, its catalog_url the url
C18_Witness ==
  /\ op = "answer_question"
  /\ manifest = [exists |-> TRUE, arr |-> <<OtherEntry, RainEntry>>]
  /\ payload.citations =
       << [dataset_id |-> "imd_rainfall", title |-> "",
           catalog_url |-> "rain.csv", resource_id |-> ""] >>


-----------------------------------------------------------------------------
(* A session of the service: any number of questions in any order, with    *)
(* reads of the debug slot in between, over files that do not change.      *)

SessionQuestions == {Pool[6], Pool[8], Pool[9], Pool[11]}

InitSession ==
  /\ NoCall
  /\ crop_district_year = SampleDistrict
  /\ crop_state_year = SampleStateCrop
  /\ rain_state_year = SampleStateRain
  /\ rain_subdivision_year = SampleSubRain
  /\ files \in [have_state : {TRUE}, have_subdivision : {TRUE},
                have_india : BOOLEAN]
  /\ rain_india_year = IF files.have_india THEN SampleIndiaRain ELSE {}
  /\ manifest = FullManifest

NextSession ==
  \/ \E q \in SessionQuestions : answer_question(q)
  \/ get_last_sql

SpecSession == InitSession /\ [][NextSession]_vars

\* C19: a read of the debug slot before any question returns the
\* placeholder note; a read after one or more questions returns the
\* payload, or the plan, of the most recent question; a read leaves the
\* slot as it is.
C19_DebugSlotHoldsLastAnswer ==
  /\ [](op = "get_last_sql" =>
          IF seen = <<>> THEN debugOut = PlaceholderNote
          ELSE debugOut \in {payload, parsed})
  /\ [][op' = "get_last_sql" => _last_plan' = _last_plan]_vars

\* the payload with the rows of its rainfall table, which the query leaves
\* unordered, as a set
Unordered(p) ==
  [p EXCEPT !.tables =
     [i \in DOMAIN p.tables |->
        IF p.tables[i].title[1] = "Avg annual rainfall "
        THEN [title |-> p.tables[i].title, rows |-> Range(p.tables[i].rows)]
        ELSE p.tables[i]]]

-----------------------------------------------------------------------------
(* The state whitelist: every template asked about every name of PAT_STATE *)
(* in lower case and capitalised, about names the pattern does not have,   *)
(* and about names written inside or after other text.                     *)

\* names PAT_STATE does not have, and none of its names is part of them
OutsideNames ==
  {<<"o","r","i","s","s","a">>, <<"b","o","m","b","a","y">>,
   <<"u","t","t","a","r","a","n","c","h","a","l">>,
   <<"d","a","m","a","n"," ","a","n","d"," ","d","i","u">>}

\* a name of the pattern inside a longer word or after other words
EmbeddedNames ==
  {<<"goa","t">>, <<"n","e","w"," ","delhi">>, <<"Goa","n">>}
    \cup {o \o <<","," ">> \o <<a>>
            : o \in OutsideNames, a \in {"west bengal", "Ladakh"}}

StatePhrases ==
  {<<a>> : a \in Range(StateNames) \cup Range(TitleStates)}
    \cup OutsideNames \cup EmbeddedNames

SecondPhrases == {<<"goa">>, <<"Tamil Nadu">>, <<"o","r","i","s","s","a">>}

\* "district in <s> highest production of rice in 2014"
AskB1(s) ==
  <<"district"," ","in"," ">> \o s
    \o <<" ","highest"," ","production"," ","of"," ","r","i","c","e"," ",
         "in"," ","2","0","1","4">>

\* "District with min production of paddy in <s> for 2013"
AskB2(s) ==
  <<"District"," ","w","i","t","h"," ","min"," ","production"," ","of"," ",
    "p","a","d","d","y"," ","in"," ">> \o s
    \o <<" ","for"," ","2","0","1","3">>

\* "district in <s> highest production of rice and district in <t> lowest
\* production"
AskB3(s, t) ==
  <<"district"," ","in"," ">> \o s
    \o <<" ","highest"," ","production"," ","of"," ","r","i","c","e"," ",
         "a","n","d"," ","district"," ","in"," ">> \o t
    \o <<" ","lowest"," ","production">>

\* "Compare rainfall in <s> and <t> last 5 years"
AskA(s, t) ==
  <<"Compare"," ","rainfall"," ","in"," ">> \o s \o <<" ","a","n","d"," ">>
    \o t \o <<" ","last"," ","5"," ","y","e","a","r","s">>

\* "top 5 crops in <s>"
AskS(s) == <<"top"," ","5"," ","crops"," ","in"," ">> \o s

StateQuestions ==
  {AskB1(s) : s \in StatePhrases} \cup {AskB2(s) : s \in StatePhrases}
    \cup {AskS(s) : s \in StatePhrases}
    \cup {AskB3(s, t) : s \in StatePhrases, t \in SecondPhrases}
    \cup {AskA(s, t) : s \in StatePhrases, t \in SecondPhrases}

InitStates ==
  /\ NoCall
  /\ SampleStore
  /\ manifest = FullManifest

NextStates == Idle /\ \E q \in StateQuestions : answer_question(q)

SpecStates == InitStates /\ [][NextStates]_vars

\* the state fields of an intent
StateFields(intent) ==
  {intent[f] : f \in DOMAIN intent \cap {"state", "state1", "state2"}}

\* every state field is the title-cased form of a name of the whitelist
\* that the lowercased question holds
FieldsFromWhitelist ==
  \A v \in StateFields(parsed) :
    \E k \in DOMAIN StateNames :
      /\ v = TitleStates[k]
      /\ StateNames[k] \in Range(Lower(question))

\* C21 (as amended): the state whitelist of the parser is a closed
\* enumeration of exactly 36 state/UT names (28 states and 8 union
\* territories), and every state field (state, state1, state2) of every
\* intent parse_question produces is the title-cased form of one of these
\* names: a state outside the list is never recognized.
C21_ClosedWhitelistOf36 ==
  /\ Len(StateNames) = 36
  /\ Cardinality(Range(StateNames)) = Len(StateNames)
  /\ FieldsFromWhitelist

\* C21 (as stated): the whitelist is a closed enumeration of exactly 28
\* names, and every state field of every intent is the title-cased form of
\* one of them.
C21_ClosedWhitelistOf28 ==
  /\ Len(StateNames) = 28
  /\ Cardinality(Range(StateNames)) = Len(StateNames)
  /\ FieldsFromWhitelist

\* a rainfall question naming Orissa before West Bengal: Orissa is passed
\* over, and West Bengal, the 36th name of the list, is the first state
C21_Witness ==
  /\ op = "answer_question"
  /\ question = AskA(<<"o","r","i","s","s","a",","," ","west bengal">>,
                     <<"goa">>)
  /\ parsed.type = "rainfall_compare_topcrops"
  /\ parsed.state1 = "West Bengal"
  /\ parsed.state2 = "Goa"


-----------------------------------------------------------------------------
(* The two district executors over the same district table: rows of two    *)
(* states whose rice is recorded as Rice in some rows and Paddy in others. *)

AgreeRows ==
  {District("Kerala", d, y, c, p)
     : d \in {"Idukki", "Palakkad"}, y \in Years, c \in {Rice, Paddy},
       p \in {1, 2}}
  \cup {District("Punjab", "Ludhiana", y, c, p)
          : y \in Years, c \in {Rice, Paddy}, p \in {1, 2}}

InitAgree ==
  /\ NoCall
  /\ crop_district_year \in UpTo(AgreeRows, MaxRows)
  /\ crop_state_year = SampleStateCrop
  /\ rain_state_year = SampleStateRain
  /\ rain_subdivision_year = SampleSubRain
  /\ rain_india_year = SampleIndiaRain
  /\ files = AllFiles
  /\ manifest = FullManifest

NextAgree ==
  /\ Idle
  /\ \E crop \in {Rice, Paddy}, year \in Years \cup {None} :
        CallDistrictTwo(crop, "Kerala", "Punjab", year)

SpecAgree == InitAgree /\ [][NextAgree]_vars

\* the year a side of the two-state answer is computed for
SideYear(st) ==
  IF parsed.year # None THEN parsed.year
  ELSE MaxYear({r \in crop_district_year :
                  r.state = st /\ r.crop = parsed.crop})

\* the rows answer_district_extremes_one may return for the state, year
\* and mode over the same data
OneStateRows(st, y, mode) ==
  {p.tables[1].rows
     : p \in {x \in answer_district_extremes_one(Con, parsed.crop, st, y, mode,
                                                 _load_manifest(manifest))
                : x.status = "returned" /\ x.tables # <<>>}}

\* C22: the district and summed production the two-state executor returns
\* as highest for state1 are those the one-state executor returns for
\* state1 with mode highest over the same data, crop and year, and its
\* lowest for state2 those of the one-state executor with mode lowest,
\* also when the crop is recorded under alias variants (Rice and Paddy).
C22_DistrictExecutorsAgree ==
  (op = "answer_district_extremes_two" /\ payload.status = "returned") =>
    \A i \in DOMAIN payload.tables :
      LET high == payload.tables[i].title[1] = "Highest production in "
          st == IF high THEN parsed.state1 ELSE parsed.state2
          mode == IF high THEN "highest" ELSE "lowest"
      IN  payload.tables[i].rows \in OneStateRows(st, SideYear(st), mode)

=============================================================================
